---------------------------- MODULE Spec2Model ----------------------------
(***************************************************************************)
(* Attribute-container stores of plaso: the in-memory FakeStore            *)
(* (plaso/storage/fake/fake_store.py) and the SQLite-based storage file    *)
(* (plaso/storage/sqlite/sqlite_file.py), as one state machine.  A store   *)
(* instance of one of the two classes is driven through its public         *)
(* operations; the SQLite file outlives the instance that wrote it.        *)
(***************************************************************************)
EXTENDS Integers, Sequences, FiniteSets, TLC

(***************************************************************************)
(* Bounds of the model.                                                    *)
(***************************************************************************)
\* Largest number of rows (containers) a store or file holds, all types.
MaxContainers == 2
\* Largest value a per-type sequence counter is driven to.
MaxSequenceNumber == 2
\* Capacity of the container cache, scaled down from 32 * 1024.
MAXIMUM_CACHED_CONTAINERS == 2
\* Timestamps of events range over 0..MaxTimestamp.
MaxTimestamp == 1
\* Largest number of generators alive at a time.
MaxGenerators == 2

(***************************************************************************)
(* Program constants.                                                      *)
(***************************************************************************)
FORMAT_VERSION == 20210621
WITH_SCHEMA_FORMAT_VERSION == 20210621
APPEND_COMPATIBLE_FORMAT_VERSION == 20190309
UPGRADE_COMPATIBLE_FORMAT_VERSION == 20210621
READ_COMPATIBLE_FORMAT_VERSION == 20190309

CONTAINER_TYPE_EVENT == "event"
CONTAINER_TYPE_EVENT_DATA == "event_data"
CONTAINER_TYPE_EVENT_SOURCE == "event_source"
CONTAINER_TYPE_EVENT_TAG == "event_tag"
CONTAINER_TYPE_SESSION_CONFIGURATION == "session_configuration"

\* The container types the model stores.
CONTAINER_TYPES ==
  {CONTAINER_TYPE_EVENT, CONTAINER_TYPE_EVENT_SOURCE, CONTAINER_TYPE_EVENT_TAG,
   CONTAINER_TYPE_SESSION_CONFIGURATION}

\* The container types _CONTAINER_SCHEMAS has a schema for (of the types
\* the model stores); the others are written serialized, into _data.
CONTAINER_SCHEMAS ==
  {CONTAINER_TYPE_EVENT, CONTAINER_TYPE_EVENT_SOURCE, CONTAINER_TYPE_EVENT_TAG}

\* Container types whose counter Open initialises from the file.
REFERENCED_CONTAINER_TYPES ==
  {CONTAINER_TYPE_EVENT, CONTAINER_TYPE_EVENT_DATA, CONTAINER_TYPE_EVENT_SOURCE}

\* (referenced type, runtime attribute, serialized attribute) per type; the
\* model keeps the runtime attribute in ref_identifier and the serialized
\* one in row_identifier, so only the referenced type is listed.
CONTAINER_SCHEMA_IDENTIFIER_MAPPINGS(container_type) ==
  IF container_type = CONTAINER_TYPE_EVENT THEN {CONTAINER_TYPE_EVENT_DATA}
  ELSE IF container_type = CONTAINER_TYPE_EVENT_TAG THEN {CONTAINER_TYPE_EVENT}
  ELSE {}

STORAGE_TYPE_SESSION == "session"
STORAGE_TYPE_TASK == "task"
STORAGE_TYPES == {STORAGE_TYPE_SESSION, STORAGE_TYPE_TASK}
COMPRESSION_FORMATS == {"none", "zlib"}
SERIALIZER_FORMAT_JSON == "json"

(***************************************************************************)
(* Identifiers and containers.                                             *)
(***************************************************************************)
NoIdentifier == [kind |-> "none", type |-> "", seq |-> 0]
FakeIdentifier(sequence_number) ==
  [kind |-> "fake", type |-> "", seq |-> sequence_number]
SQLTableIdentifier(container_type, sequence_number) ==
  [kind |-> "sql", type |-> container_type, seq |-> sequence_number]

\* The lookup key an identifier is turned into.
CopyToString(identifier) == <<identifier.kind, identifier.type, identifier.seq>>

\* A container object: attr is its schema attribute (timestamp of an event,
\* data_type of an event source, labels of an event tag), ref_identifier the
\* runtime reference attribute (_event_data_identifier, _event_identifier),
\* row_identifier the serialized one (_event_data_row_identifier,
\* _event_row_identifier), 0 when the attribute is not set.
Container(container_type, identifier, attr, ref_identifier, row_identifier) ==
  [CONTAINER_TYPE |-> container_type, identifier |-> identifier, attr |-> attr,
   ref_identifier |-> ref_identifier, row_identifier |-> row_identifier]

\* Python's None where a container is expected.
None == Container("None", NoIdentifier, 0, NoIdentifier, 0)

Timestamps == 0..MaxTimestamp

\* The attribute values a producer gives a container of a type: any
\* timestamp for an event, one of two data types for an event source, one
\* label set for an event tag (tags differ in the event they refer to),
\* one value for a session configuration.
AttributeValues(container_type) ==
  IF container_type = CONTAINER_TYPE_EVENT THEN Timestamps
  ELSE IF container_type \in {CONTAINER_TYPE_EVENT_TAG,
                              CONTAINER_TYPE_SESSION_CONFIGURATION} THEN {0}
  ELSE 0..1

\* An identifier of the kind a backend issues.
OwnIdentifier(kind, container_type, sequence_number) ==
  IF kind = "fake" THEN FakeIdentifier(sequence_number)
  ELSE SQLTableIdentifier(container_type, sequence_number)

\* An identifier of the kind the other backend issues.
OtherIdentifier(kind, container_type, sequence_number) ==
  IF kind = "fake" THEN SQLTableIdentifier(container_type, sequence_number)
  ELSE FakeIdentifier(sequence_number)

\* The reference a producer of the given backend puts in a new container:
\* an event refers to its event data, an event tag to its event (or, by
\* mistake, to nothing).
ReferenceValues(kind, container_type) ==
  IF container_type = CONTAINER_TYPE_EVENT
    THEN {OwnIdentifier(kind, CONTAINER_TYPE_EVENT_DATA, 1)}
  ELSE IF container_type = CONTAINER_TYPE_EVENT_TAG
    THEN {OwnIdentifier(kind, CONTAINER_TYPE_EVENT, n) :
            n \in 1..MaxSequenceNumber} \cup {NoIdentifier}
  ELSE {NoIdentifier}

\* The containers a producer hands to add.
NewContainers(kind) ==
  UNION {{Container(t, NoIdentifier, a, r, 0) :
            a \in AttributeValues(t), r \in ReferenceValues(kind, t)} :
         t \in CONTAINER_TYPES}

(***************************************************************************)
(* Time ranges: no range at all, or a range whose start and end are each  *)
(* a timestamp or absent (None); start <= end when both are given.         *)
(***************************************************************************)
NoTimeRange ==
  [set |-> FALSE, start_given |-> FALSE, start_timestamp |-> 0,
   end_given |-> FALSE, end_timestamp |-> 0]
\* A time range of which an endpoint may be absent; an absent endpoint is
\* kept as 0 with its flag FALSE.
OpenTimeRange(start_given, start_timestamp, end_given, end_timestamp) ==
  [set |-> TRUE,
   start_given |-> start_given,
   start_timestamp |-> IF start_given THEN start_timestamp ELSE 0,
   end_given |-> end_given,
   end_timestamp |-> IF end_given THEN end_timestamp ELSE 0]
TimeRange(start_timestamp, end_timestamp) ==
  OpenTimeRange(TRUE, start_timestamp, TRUE, end_timestamp)
TimeRanges ==
  {TimeRange(r[1], r[2]) : r \in {p \in Timestamps \X Timestamps : p[1] <= p[2]}}

\* The values a caller gives an endpoint of a time range: the timestamps of
\* events, one below (a negative one) and one above.
TimeBounds == (0 - 1)..(MaxTimestamp + 1)
\* The time ranges with either endpoint given or absent.
OpenTimeRanges ==
  {OpenTimeRange(g[1], p[1], g[2], p[2]) :
     g \in BOOLEAN \X BOOLEAN,
     p \in {q \in TimeBounds \X TimeBounds : q[1] <= q[2]}}

(***************************************************************************)
(* Texts of digits: the value column of the metadata table is TEXT, and    *)
(* the format version is written to it and parsed from it.                 *)
(***************************************************************************)
DecimalDigits == <<"0", "1", "2", "3", "4", "5", "6", "7", "8", "9">>

\* The longest decimal text formatted or parsed.
MaxDigits == 9

\* '{0:d}'.format(number) for a number that is not negative: its decimal
\* digits, as a sequence of characters, the most significant first.
FormatDecimal(number) ==
  LET length == CHOOSE n \in 1..MaxDigits :
                  /\ number < 10^n
                  /\ n > 1 => number >= 10^(n - 1)
  IN [k \in 1..length |->
        DecimalDigits[((number \div 10^(length - k)) % 10) + 1]]

\* The digit characters, and the digit each of them stands for.
DigitCharacters == {DecimalDigits[d] : d \in 1..10}
DigitOf == [character \in DigitCharacters |-> CHOOSE d \in 0..9 : DecimalDigits[d + 1] = character]

\* The value of a sequence of digit characters read in base 10: the value
\* of the digits before the last one times ten, plus the last one.
DigitsValue(text) ==
  LET value[k \in 0..Len(text)] ==
        IF k = 0 THEN 0
        ELSE 10 * value[k - 1] + DigitOf[text[k]]
  IN value[Len(text)]

\* int(text, 10) of a text without blanks and underscores: ok is FALSE when
\* it raises ValueError, a text being an optional sign followed by one or
\* more digits.
ParseDecimal(text) ==
  LET signed == text # <<>> /\ text[1] \in {"+", "-"}
      digits == IF signed THEN SubSeq(text, 2, Len(text)) ELSE text
      is_number ==
        /\ digits # <<>>
        /\ \A k \in 1..Len(digits) : digits[k] \in DigitCharacters
  IN IF ~is_number THEN [ok |-> FALSE, value |-> 0]
     ELSE [ok |-> TRUE,
           value |-> IF signed /\ text[1] = "-"
                       THEN 0 - DigitsValue(digits) ELSE DigitsValue(digits)]

(***************************************************************************)
(* The SQLite file on disk.                                                *)
(***************************************************************************)
\* The metadata table: present when the table exists; format_version the
\* text of the value stored under that key, the empty text when there is
\* none; likewise the other three values.
NoMetadata ==
  [present |-> FALSE, format_version |-> <<>>, compression_format |-> "",
   serialization_format |-> "", storage_type |-> ""]
Metadata(version, compression_format, serialization_format, type) ==
  [present |-> TRUE, format_version |-> version,
   compression_format |-> compression_format,
   serialization_format |-> serialization_format,
   storage_type |-> type]

NoTables == [t \in CONTAINER_TYPES |-> <<>>]

\* exists: the path is a file; metadata: the metadata table; has_tables:
\* the container tables exist; layout: their columns ("schema": one column
\* per schema attribute, "legacy": _data, and _timestamp for events);
\* tables: the rows per container type, in rowid order.
File(exists, metadata, has_tables, layout, tables) ==
  [exists |-> exists, metadata |-> metadata, has_tables |-> has_tables,
   layout |-> layout, tables |-> tables]

\* The files a store can be pointed at before this code has written to
\* them: no file, a file without a metadata table, an empty file as an
\* earlier release with a pre-schema format wrote it, and a file stamped
\* by a later release.
InitialFiles ==
  {File(FALSE, NoMetadata, FALSE, "schema", NoTables),
   File(TRUE, NoMetadata, FALSE, "schema", NoTables),
   File(TRUE, Metadata(FormatDecimal(20200101), "zlib",
                       SERIALIZER_FORMAT_JSON, STORAGE_TYPE_SESSION),
        TRUE, "legacy", NoTables),
   File(TRUE, Metadata(FormatDecimal(20990101), "zlib",
                       SERIALIZER_FORMAT_JSON, STORAGE_TYPE_SESSION),
        FALSE, "schema", NoTables)}

(***************************************************************************)
(* State.                                                                  *)
(***************************************************************************)
VARIABLES
  backend,                \* "fake" (FakeStore) or "sqlite" (SQLiteStorageFile)
  is_open,                \* _is_open
  sequence_numbers,       \* _attribute_container_sequence_numbers
  attribute_containers,   \* FakeStore._attribute_containers
  event_tag_per_event_identifier,
  producer,               \* the container object the producer handed to
                          \* the last add or update of the FakeStore, and
                          \* whether the store holds that very object
  file,                   \* the SQLite file the store is pointed at
  connection,             \* _connection and _cursor: "None" or "connected"
  read_only,              \* _read_only
  format_version,         \* format_version
  storage_type,           \* storage_type
  use_schema,             \* _use_schema
  attribute_container_cache,
  cursors,                \* the rows a cursor has still to return: of
                          \* _cursor (0) and of the local cursors of the
                          \* generators (1, 2, ...)
  generators,             \* the generators GetAttributeContainers and
                          \* GetSortedEvents returned, each with its query
                          \* and the containers it yielded so far
  last                    \* the last call of open, close, add, update or
                          \* GetSystemConfigurationIdentifier: its name and
                          \* outcome, the caller's container as add or
                          \* update left it, the identifier returned

base_vars == <<backend, is_open, sequence_numbers>>
fake_vars ==
  <<attribute_containers, event_tag_per_event_identifier, producer>>
generator_vars == <<cursors, generators>>
sqlite_vars ==
  <<file, connection, read_only, format_version, storage_type, use_schema,
    attribute_container_cache, generator_vars>>
vars == <<base_vars, fake_vars, sqlite_vars, last>>

\* What a call left behind: out is "ok" or the kind of error raised,
\* container the container returned (or, for add and update, the caller's
\* container as the call leaves it), containers the sequence an iterator
\* yields, identifier the identifier and number the number returned.
Raised(op, out) ==
  [op |-> op, out |-> out, container |-> None, containers |-> <<>>,
   identifier |-> NoIdentifier, number |-> 0]
Returned(op, container) == [Raised(op, "ok") EXCEPT !.container = container]
Yielded(op, containers) == [Raised(op, "ok") EXCEPT !.containers = containers]
ReturnedIdentifier(op, identifier) ==
  [Raised(op, "ok") EXCEPT !.identifier = identifier]
ReturnedNumber(op, number) == [Raised(op, "ok") EXCEPT !.number = number]

\* What the variable last keeps of the result of a call.
Called(result) ==
  [op |-> result.op, out |-> result.out,
   container |-> result.container, identifier |-> result.identifier]

\* The object a producer holds: op the call it was handed to ("add" or
\* "update"), in_containers when _attribute_containers holds this very
\* object, in_index when the tag index does.
Producer(container, op, in_containers, in_index) ==
  [container |-> container, op |-> op, in_containers |-> in_containers,
   in_index |-> in_index]
NoProducer == Producer(None, "none", FALSE, FALSE)

\* The cursors: _cursor of the store and the local cursors of the generators.
CursorIds == 0..MaxGenerators

\* FakeStore.__init__ and SQLiteStorageFile.__init__.
Init ==
  /\ backend \in {"fake", "sqlite"}
  /\ is_open = FALSE
  /\ sequence_numbers = [t \in CONTAINER_TYPES |-> 0]
  /\ attribute_containers = [t \in CONTAINER_TYPES |-> <<>>]
  /\ event_tag_per_event_identifier = {}
  /\ producer = NoProducer
  /\ file \in (IF backend = "sqlite" THEN InitialFiles
               ELSE {File(FALSE, NoMetadata, FALSE, "schema", NoTables)})
  /\ connection = "None"
  /\ read_only = TRUE
  /\ format_version = FORMAT_VERSION
  /\ storage_type = STORAGE_TYPE_SESSION
  /\ use_schema = TRUE
  /\ attribute_container_cache = <<>>
  /\ cursors = [c \in CursorIds |-> <<>>]
  /\ generators = <<>>
  /\ last = Called(Raised("init", "ok"))

(***************************************************************************)
(* BaseStore: the sequence counters and the write entry points.            *)
(***************************************************************************)
\* _GetAttributeContainerNextSequenceNumber: the value returned; the
\* counter is left at that value.
GetAttributeContainerNextSequenceNumber(container_type) ==
  sequence_numbers[container_type] + 1

\* Sum of the lengths of the sequences of a function over container types.
RECURSIVE SumLen(_, _)
SumLen(f, types) ==
  IF types = {} THEN 0
  ELSE LET t == CHOOSE x \in types : TRUE
       IN Len(f[t]) + SumLen(f, types \ {t})

(***************************************************************************)
(* FakeStore.                                                              *)
(***************************************************************************)
Fake_RaiseIfNotReadable == ~is_open
Fake_RaiseIfNotWritable == ~is_open

\* The position of a lookup key in an ordered dict, 0 when it is not a key.
KeyIndex(entries, lookup_key) ==
  IF \E i \in 1..Len(entries) : entries[i].key = lookup_key
    THEN CHOOSE i \in 1..Len(entries) : entries[i].key = lookup_key
    ELSE 0

Values(entries) == [i \in 1..Len(entries) |-> entries[i].container]

\* dict[key] = value on the tag index.
SetItem(dict, lookup_key, container) ==
  {e \in dict : e.key # lookup_key} \cup
  {[key |-> lookup_key, container |-> container]}

GetItem(dict, lookup_key) ==
  IF \E e \in dict : e.key = lookup_key
    THEN (CHOOSE e \in dict : e.key = lookup_key).container
    ELSE None

\* A variant of FakeStore.Open that leaves out the test of _is_open.
Fake_Open_WithoutOpenTest ==
  /\ backend = "fake"
  /\ is_open' = TRUE
  /\ last' = Called(Raised("open", "ok"))
  /\ UNCHANGED <<backend, sequence_numbers, fake_vars, sqlite_vars>>

\* FakeStore.Open.
Fake_Open ==
  /\ backend = "fake"
  /\ IF is_open
       THEN /\ last' = Called(Raised("open", "AlreadyOpen"))
            /\ UNCHANGED is_open
       ELSE /\ is_open' = TRUE
            /\ last' = Called(Raised("open", "ok"))
  /\ UNCHANGED <<backend, sequence_numbers, fake_vars, sqlite_vars>>

\* FakeStore.Close.
Fake_Close ==
  /\ backend = "fake"
  /\ IF ~is_open
       THEN /\ last' = Called(Raised("close", "AlreadyClosed"))
            /\ UNCHANGED is_open
       ELSE /\ is_open' = FALSE
            /\ last' = Called(Raised("close", "ok"))
  /\ UNCHANGED <<backend, sequence_numbers, fake_vars, sqlite_vars>>

\* FakeStore._WriteNewAttributeContainer: the container as the caller holds
\* it after the call.
Fake_WriteNew_Container(container) ==
  [container EXCEPT !.identifier = FakeIdentifier(
     GetAttributeContainerNextSequenceNumber(container.CONTAINER_TYPE))]

\* A variant of _WriteNewAttributeContainer that stores the caller's object
\* instead of a copy of it.
Fake_WriteNew_KeepsCallersObject_WithoutDeepCopy == TRUE

\* FakeStore._WriteNewAttributeContainer: whether the object it stores is
\* the caller's; it is not, container = copy.deepcopy(container) comes
\* before the assignments.
Fake_WriteNew_KeepsCallersObject == FALSE

\* BaseStore.AddAttributeContainer on a FakeStore.
Fake_AddAttributeContainer(container) ==
  /\ backend = "fake"
  /\ IF Fake_RaiseIfNotWritable
       THEN /\ last' = Called(Raised("add", "NotWritable"))
            /\ UNCHANGED <<sequence_numbers, fake_vars>>
       ELSE LET t == container.CONTAINER_TYPE
                stored == Fake_WriteNew_Container(container)
                lookup_key == CopyToString(stored.identifier)
            IN /\ sequence_numbers[t] < MaxSequenceNumber
               /\ SumLen(attribute_containers, CONTAINER_TYPES) < MaxContainers
               /\ sequence_numbers' = [sequence_numbers EXCEPT ![t] = @ + 1]
               /\ attribute_containers' =
                    [attribute_containers EXCEPT ![t] =
                       Append(@, [key |-> lookup_key, container |-> stored])]
               /\ IF t # CONTAINER_TYPE_EVENT_TAG
                    THEN /\ last' = Called(Returned("add", stored))
                         /\ producer' =
                              Producer(stored, "add",
                                       Fake_WriteNew_KeepsCallersObject, FALSE)
                         /\ UNCHANGED event_tag_per_event_identifier
                    ELSE IF stored.ref_identifier = NoIdentifier
                      THEN \* None.CopyToString()
                           /\ last' = Called([Raised("add", "AttributeError")
                                              EXCEPT !.container = stored])
                           /\ producer' =
                                Producer(stored, "add",
                                         Fake_WriteNew_KeepsCallersObject,
                                         FALSE)
                           /\ UNCHANGED event_tag_per_event_identifier
                      ELSE /\ event_tag_per_event_identifier' =
                                SetItem(event_tag_per_event_identifier,
                                        CopyToString(stored.ref_identifier),
                                        stored)
                           /\ producer' =
                                Producer(stored, "add",
                                         Fake_WriteNew_KeepsCallersObject,
                                         Fake_WriteNew_KeepsCallersObject)
                           /\ last' = Called(Returned("add", stored))
  /\ UNCHANGED <<backend, is_open, sqlite_vars>>

\* The identifiers a caller passes to update and to the lookups: of the
\* backend's kind, of the other kind, or none.
Identifiers(kind, container_type) ==
  {OwnIdentifier(kind, container_type, n) : n \in 1..MaxSequenceNumber} \cup
  {OtherIdentifier(kind, container_type, 1), NoIdentifier}

\* The containers a caller hands to update: a container of any content
\* under an identifier of the backend, or a container under an identifier
\* of the other kind or under none.
ExistingContainers(kind) ==
  UNION {{[c EXCEPT !.identifier = OwnIdentifier(kind, c.CONTAINER_TYPE, n)] :
            n \in 1..MaxSequenceNumber} : c \in NewContainers(kind)} \cup
  UNION {{Container(t, OtherIdentifier(kind, t, 1), 0, r, 0),
          Container(t, NoIdentifier, 0, r, 0)} :
         r \in {OwnIdentifier(kind, CONTAINER_TYPE_EVENT, 1)},
         t \in CONTAINER_TYPES}

\* FakeStore._WriteExistingAttributeContainer: the error raised, "ok" if none.
Fake_WriteExisting_Out(container) ==
  IF container.identifier.kind # "fake" THEN "UnsupportedIdentifier"
  ELSE IF KeyIndex(attribute_containers[container.CONTAINER_TYPE],
                   CopyToString(container.identifier)) = 0
    THEN "MissingContainer"
  ELSE "ok"

\* BaseStore.UpdateAttributeContainer on a FakeStore.
Fake_UpdateAttributeContainer(container) ==
  /\ backend = "fake"
  /\ IF Fake_RaiseIfNotWritable
       THEN /\ last' = Called(Raised("update", "NotWritable"))
            /\ UNCHANGED <<attribute_containers, producer>>
       ELSE LET t == container.CONTAINER_TYPE
                out == Fake_WriteExisting_Out(container)
                i == KeyIndex(attribute_containers[t],
                              CopyToString(container.identifier))
            IN IF out # "ok"
                 THEN /\ last' = Called(Raised("update", out))
                      /\ UNCHANGED <<attribute_containers, producer>>
                 ELSE /\ attribute_containers' =
                           [attribute_containers EXCEPT ![t][i].container =
                              container]
                      /\ producer' = Producer(container, "update", TRUE, FALSE)
                      /\ last' = Called(Returned("update", container))
  /\ UNCHANGED <<base_vars, event_tag_per_event_identifier, sqlite_vars>>

\* FakeStore.GetAttributeContainerByIdentifier.
Fake_GetAttributeContainerByIdentifier_Result(container_type, identifier) ==
  IF identifier = NoIdentifier
    THEN Raised("get_by_identifier", "AttributeError")
    ELSE LET entries == attribute_containers[container_type]
             i == KeyIndex(entries, CopyToString(identifier))
         IN Returned("get_by_identifier",
                     IF i = 0 THEN None ELSE entries[i].container)

\* FakeStore.GetAttributeContainerByIndex.
Fake_GetAttributeContainerByIndex_Result(container_type, index) ==
  LET containers == attribute_containers[container_type]
      number_of_containers == Len(containers)
  IN IF index < 0 \/ index >= number_of_containers
       THEN Returned("get_by_index", None)
       ELSE Returned("get_by_index", containers[index + 1].container)

\* FakeStore.GetAttributeContainers, consumed to the end.
Fake_GetAttributeContainers_Result(container_type) ==
  Yielded("iterate", Values(attribute_containers[container_type]))

\* FakeStore.GetEventTagByEventIdentifier.
Fake_GetEventTagByEventIdentifier_Result(event_identifier) ==
  IF event_identifier.kind # "fake"
    THEN Raised("event_tag_for", "UnsupportedIdentifier")
    ELSE Returned("event_tag_for",
                  GetItem(event_tag_per_event_identifier,
                          CopyToString(event_identifier)))

\* FakeStore.GetNumberOfAttributeContainers.
Fake_GetNumberOfAttributeContainers_Result(container_type) ==
  ReturnedNumber("count", Len(attribute_containers[container_type]))

\* FakeStore.HasAttributeContainers: number is 1 for True, 0 for False.
Fake_HasAttributeContainers_Result(container_type) ==
  ReturnedNumber("has",
    IF Len(attribute_containers[container_type]) > 0 THEN 1 ELSE 0)

\* FakeStore.GetSystemConfigurationIdentifier: the identifier is made of
\* what _GetAttributeContainerNextSequenceNumber returns, the call add makes
\* to advance the counter.
Fake_GetSystemConfigurationIdentifier ==
  /\ backend = "fake"
  /\ sequence_numbers[CONTAINER_TYPE_SESSION_CONFIGURATION] < MaxSequenceNumber
  /\ sequence_numbers' =
       [sequence_numbers EXCEPT ![CONTAINER_TYPE_SESSION_CONFIGURATION] =
          GetAttributeContainerNextSequenceNumber(
            CONTAINER_TYPE_SESSION_CONFIGURATION)]
  /\ last' = Called(ReturnedIdentifier(
                "next_system_configuration_identifier",
                FakeIdentifier(GetAttributeContainerNextSequenceNumber(
                  CONTAINER_TYPE_SESSION_CONFIGURATION))))
  /\ UNCHANGED <<backend, is_open, fake_vars, sqlite_vars>>

(***************************************************************************)
(* EventHeap: a min-heap of (timestamp, event index, event).               *)
(***************************************************************************)
HeapLess(a, b) ==
  \/ a.timestamp < b.timestamp
  \/ a.timestamp = b.timestamp /\ a.event_index < b.event_index

RECURSIVE PopEvents(_)
PopEvents(heap) ==
  IF heap = {} THEN <<>>
  ELSE LET first == CHOOSE a \in heap : \A b \in heap \ {a} : HeapLess(a, b)
       IN <<first.event>> \o PopEvents(heap \ {first})

\* The time range test of FakeStore.GetSortedEvents: TRUE when the event is
\* skipped.
Fake_OutsideTimeRange(event, time_range) ==
  time_range.set /\ (\/ event.attr < time_range.start_timestamp
                     \/ event.attr > time_range.end_timestamp)

\* The time range test of FakeStore.GetSortedEvents: TRUE when it raises
\* TypeError, a timestamp being compared with None.
Fake_TimeRangeTestRaises(event, time_range) ==
  /\ time_range.set
  /\ \/ ~time_range.start_given
     \/ /\ event.attr >= time_range.start_timestamp
        /\ ~time_range.end_given

\* FakeStore.GetSortedEvents, consumed to the end.
Fake_GetSortedEvents_Result(time_range) ==
  IF ~is_open THEN Raised("sorted_events", "NotReadable")
  ELSE LET events == Values(attribute_containers[CONTAINER_TYPE_EVENT])
           sorted_events ==
             {[timestamp |-> events[i].attr, event_index |-> i - 1,
               event |-> events[i]] :
                i \in {j \in 1..Len(events) :
                         ~Fake_OutsideTimeRange(events[j], time_range)}}
       IN IF \E i \in 1..Len(events) :
               Fake_TimeRangeTestRaises(events[i], time_range)
            THEN Raised("sorted_events", "TypeError")
            ELSE Yielded("sorted_events", PopEvents(sorted_events))

\* The indexes a caller passes to get_by_index.
Indexes == (0 - 1)..MaxContainers

\* The read operations of a FakeStore: each returns what its _Result
\* operator gives for the arguments it is called with, and none changes
\* the store.
Fake_GetAttributeContainerByIdentifier == backend = "fake" /\ UNCHANGED vars
Fake_GetAttributeContainerByIndex == backend = "fake" /\ UNCHANGED vars
Fake_GetAttributeContainers == backend = "fake" /\ UNCHANGED vars
Fake_GetEventTagByEventIdentifier == backend = "fake" /\ UNCHANGED vars
Fake_GetNumberOfAttributeContainers == backend = "fake" /\ UNCHANGED vars
Fake_HasAttributeContainers == backend = "fake" /\ UNCHANGED vars
Fake_GetSortedEvents == backend = "fake" /\ UNCHANGED vars

\* The values a producer sets the schema attribute of its object to.
MutatedValues == 0..1

\* The producer changes the schema attribute of the object it handed to the
\* last add or update.  The store sees the change where it holds that very
\* object.
Fake_Mutate(attr) ==
  /\ backend = "fake"
  /\ producer.container # None
  /\ producer.container.attr # attr
  /\ LET t == producer.container.CONTAINER_TYPE
         mutated == [producer.container EXCEPT !.attr = attr]
         i == KeyIndex(attribute_containers[t],
                       CopyToString(producer.container.identifier))
     IN /\ producer' = [producer EXCEPT !.container = mutated]
        /\ attribute_containers' =
             IF producer.in_containers
               THEN [attribute_containers EXCEPT ![t][i].container = mutated]
               ELSE attribute_containers
        /\ event_tag_per_event_identifier' =
             IF producer.in_index
               THEN SetItem(event_tag_per_event_identifier,
                            CopyToString(mutated.ref_identifier), mutated)
               ELSE event_tag_per_event_identifier
  /\ UNCHANGED <<base_vars, sqlite_vars, last>>

Fake_Next ==
  \/ Fake_Open
  \/ Fake_Close
  \/ \E c \in NewContainers("fake") : Fake_AddAttributeContainer(c)
  \/ \E c \in ExistingContainers("fake") : Fake_UpdateAttributeContainer(c)
  \/ Fake_GetAttributeContainerByIdentifier
  \/ Fake_GetAttributeContainerByIndex
  \/ Fake_GetAttributeContainers
  \/ Fake_GetEventTagByEventIdentifier
  \/ Fake_GetNumberOfAttributeContainers
  \/ Fake_HasAttributeContainers
  \/ Fake_GetSortedEvents
  \/ \E attr \in MutatedValues : Fake_Mutate(attr)

(***************************************************************************)
(* SQLiteStorageFile: rows, the cache and the queries.                     *)
(***************************************************************************)
SQLite_RaiseIfNotReadable == ~is_open
\* A variant of _RaiseIfNotWritable that leaves out the read-only test.
SQLite_RaiseIfNotWritable_WithoutReadOnlyTest == ~is_open
SQLite_RaiseIfNotWritable == ~is_open \/ read_only

\* The row written for a container: the schema columns, or _data (and
\* _timestamp) holding the same attributes serialized.  The identifier and
\* the runtime reference are not part of the row.
Row(container) ==
  [attr |-> container.attr, row_identifier |-> container.row_identifier]

\* _CreatetAttributeContainerFromRow: the container of a row, before its
\* identifier is set.
CreatetAttributeContainerFromRow(container_type, row) ==
  Container(container_type, NoIdentifier, row.attr, NoIdentifier,
            row.row_identifier)

\* A variant of _UpdateAttributeContainerAfterDeserialize that leaves the
\* serialized reference on the container.
UpdateAttributeContainerAfterDeserialize_KeepingSerialized(container) ==
  IF CONTAINER_SCHEMA_IDENTIFIER_MAPPINGS(container.CONTAINER_TYPE) # {}
    THEN LET identifier_container_type ==
               CHOOSE r \in CONTAINER_SCHEMA_IDENTIFIER_MAPPINGS(
                              container.CONTAINER_TYPE) : TRUE
         IN [container EXCEPT
               !.ref_identifier = SQLTableIdentifier(
                  identifier_container_type, container.row_identifier)]
    ELSE container

\* _UpdateAttributeContainerAfterDeserialize: the serialized reference
\* becomes a row identifier object on the runtime attribute and is deleted.
\* (A row this code wrote never lacks the serialized reference.)
UpdateAttributeContainerAfterDeserialize(container) ==
  IF CONTAINER_SCHEMA_IDENTIFIER_MAPPINGS(container.CONTAINER_TYPE) # {}
    THEN LET identifier_container_type ==
               CHOOSE r \in CONTAINER_SCHEMA_IDENTIFIER_MAPPINGS(
                              container.CONTAINER_TYPE) : TRUE
         IN [container EXCEPT
               !.ref_identifier = SQLTableIdentifier(
                  identifier_container_type, container.row_identifier),
               !.row_identifier = 0]
    ELSE container

\* _UpdateAttributeContainerBeforeSerialize: TRUE when it raises.
BeforeSerialize_Raises(container) ==
  /\ CONTAINER_SCHEMA_IDENTIFIER_MAPPINGS(container.CONTAINER_TYPE) # {}
  /\ container.ref_identifier.kind # "sql"

\* A variant of _UpdateAttributeContainerBeforeSerialize that does not set
\* the serialized reference.
UpdateAttributeContainerBeforeSerialize_WithoutSerialized(container) ==
  container

\* _UpdateAttributeContainerBeforeSerialize: the container it leaves; the
\* runtime reference stays on it.
UpdateAttributeContainerBeforeSerialize(container) ==
  IF CONTAINER_SCHEMA_IDENTIFIER_MAPPINGS(container.CONTAINER_TYPE) # {}
    THEN [container EXCEPT !.row_identifier = container.ref_identifier.seq]
    ELSE container

\* The container read from row number row_number of a table.
ContainerOfRow(container_type, row, row_number) ==
  UpdateAttributeContainerAfterDeserialize(
    [CreatetAttributeContainerFromRow(container_type, row) EXCEPT
       !.identifier = SQLTableIdentifier(container_type, row_number)])

\* The layout of the columns the store selects and inserts.
QueryLayout == IF use_schema THEN "schema" ELSE "legacy"

\* A SELECT or INSERT on a container table raises sqlite3.OperationalError
\* when the table or a column it names does not exist.
QueryFails == ~file.has_tables \/ file.layout # QueryLayout

\* The same for a query on the table of a container type: the table of a
\* type without schema has the column _data in either layout, and _data is
\* what the store selects from it and inserts into it.
QueryFailsFor(container_type) ==
  IF container_type \in CONTAINER_SCHEMAS THEN QueryFails
  ELSE ~file.has_tables

\* _cursor.execute(query) followed by fetchone(), for a query of one row
\* at most: the result _cursor held before is gone and nothing is left to
\* fetch.
ExecuteAndFetchOne ==
  IF connection = "None" THEN cursors ELSE [cursors EXCEPT ![0] = <<>>]

\* The lookup key of the cache.
CacheKey(container_type, index) == <<container_type, index>>

CachePosition(cache, lookup_key) ==
  IF \E i \in 1..Len(cache) : cache[i].key = lookup_key
    THEN CHOOSE i \in 1..Len(cache) : cache[i].key = lookup_key
    ELSE 0

Remove(seq, i) == SubSeq(seq, 1, i - 1) \o SubSeq(seq, i + 1, Len(seq))

\* OrderedDict.move_to_end(lookup_key, last=False).
MoveToFront(cache, lookup_key) ==
  LET i == CachePosition(cache, lookup_key)
  IN <<cache[i]>> \o Remove(cache, i)

\* A variant of _CacheAttributeContainerByIndex that pops no entry of a
\* cache that is full.
CacheAttributeContainerByIndex_WithoutPop(cache, attribute_container, index) ==
  IF /\ format_version < WITH_SCHEMA_FORMAT_VERSION
     /\ attribute_container.CONTAINER_TYPE = CONTAINER_TYPE_EVENT_TAG
    THEN cache
    ELSE LET lookup_key ==
               CacheKey(attribute_container.CONTAINER_TYPE, index)
             entry == [key |-> lookup_key, container |-> attribute_container]
             i == CachePosition(cache, lookup_key)
             assigned == IF i = 0 THEN Append(cache, entry)
                         ELSE [cache EXCEPT ![i] = entry]
         IN MoveToFront(assigned, lookup_key)

\* _CacheAttributeContainerByIndex: the cache after the call.
CacheAttributeContainerByIndex(cache, attribute_container, index) ==
  IF /\ format_version < WITH_SCHEMA_FORMAT_VERSION
     /\ attribute_container.CONTAINER_TYPE = CONTAINER_TYPE_EVENT_TAG
    THEN cache
    ELSE LET popped == IF Len(cache) >= MAXIMUM_CACHED_CONTAINERS
                         THEN SubSeq(cache, 1, Len(cache) - 1) ELSE cache
             lookup_key ==
               CacheKey(attribute_container.CONTAINER_TYPE, index)
             entry == [key |-> lookup_key, container |-> attribute_container]
             i == CachePosition(popped, lookup_key)
             assigned == IF i = 0 THEN Append(popped, entry)
                         ELSE [popped EXCEPT ![i] = entry]
         IN MoveToFront(assigned, lookup_key)

\* _GetCachedAttributeContainer: the container returned, None on a miss.
GetCachedAttributeContainer(container_type, index) ==
  LET i == CachePosition(attribute_container_cache,
                         CacheKey(container_type, index))
  IN IF i = 0 THEN None ELSE attribute_container_cache[i].container

\* A variant of _GetCachedAttributeContainer that leaves the entry it found
\* where it is.
CacheAfterGet_LeavingTheOrder(container_type, index) ==
  attribute_container_cache

\* _GetCachedAttributeContainer: the cache after the call.
CacheAfterGet(container_type, index) ==
  IF GetCachedAttributeContainer(container_type, index) # None
    THEN MoveToFront(attribute_container_cache,
                     CacheKey(container_type, index))
    ELSE attribute_container_cache

\* SQLiteStorageFile.GetNumberOfAttributeContainers.
SQLite_GetNumberOfAttributeContainers_Result(container_type) ==
  IF connection = "None" THEN Raised("count", "AttributeError")
  ELSE IF ~file.has_tables THEN ReturnedNumber("count", 0)
  ELSE ReturnedNumber("count", Len(file.tables[container_type]))

\* SQLiteStorageFile.HasAttributeContainers: number is 1 for True.
SQLite_HasAttributeContainers_Result(container_type) ==
  LET count == SQLite_GetNumberOfAttributeContainers_Result(container_type)
  IN IF count.out # "ok" THEN Raised("has", count.out)
     ELSE ReturnedNumber("has", IF count.number > 0 THEN 1 ELSE 0)

\* A variant of GetAttributeContainerByIndex that takes the index for the
\* sequence number of the row it reads.
SQLite_GetAttributeContainerByIndex_Result_IndexAsRow(container_type, index) ==
  LET cached == GetCachedAttributeContainer(container_type, index)
      row_number == index
      table == file.tables[container_type]
  IN IF cached # None THEN Returned("get_by_index", cached)
     ELSE IF connection = "None" THEN Raised("get_by_index", "AttributeError")
     ELSE IF QueryFailsFor(container_type)
       THEN Raised("get_by_index", "BackendError")
     ELSE IF row_number \notin 1..Len(table)
       THEN Returned("get_by_index", None)
     ELSE Returned("get_by_index",
                   ContainerOfRow(container_type, table[row_number],
                                  row_number))

\* SQLiteStorageFile.GetAttributeContainerByIndex: what it returns.
SQLite_GetAttributeContainerByIndex_Result(container_type, index) ==
  LET cached == GetCachedAttributeContainer(container_type, index)
      row_number == index + 1
      table == file.tables[container_type]
  IN IF cached # None THEN Returned("get_by_index", cached)
     ELSE IF connection = "None" THEN Raised("get_by_index", "AttributeError")
     ELSE IF QueryFailsFor(container_type)
       THEN Raised("get_by_index", "BackendError")
     ELSE IF row_number \notin 1..Len(table)
       THEN Returned("get_by_index", None)
     ELSE Returned("get_by_index",
                   ContainerOfRow(container_type, table[row_number],
                                  row_number))

\* SQLiteStorageFile.GetAttributeContainerByIndex: the cache it leaves.
SQLite_GetAttributeContainerByIndex_Cache(container_type, index) ==
  LET cached == GetCachedAttributeContainer(container_type, index)
      result == SQLite_GetAttributeContainerByIndex_Result(
                  container_type, index)
  IN IF cached # None THEN CacheAfterGet(container_type, index)
     ELSE IF result.out = "ok" /\ result.container # None
       THEN CacheAttributeContainerByIndex(
              attribute_container_cache, result.container, index)
     ELSE attribute_container_cache

\* SQLiteStorageFile.GetAttributeContainerByIdentifier: what it returns.
SQLite_GetAttributeContainerByIdentifier_Result(container_type, identifier) ==
  IF identifier.kind # "sql"
    THEN Raised("get_by_identifier", "UnsupportedIdentifier")
    ELSE [SQLite_GetAttributeContainerByIndex_Result(
            container_type, identifier.seq - 1)
          EXCEPT !.op = "get_by_identifier"]

\* SQLiteStorageFile.GetAttributeContainerByIdentifier: the cache it leaves.
SQLite_GetAttributeContainerByIdentifier_Cache(container_type, identifier) ==
  IF identifier.kind # "sql" THEN attribute_container_cache
  ELSE SQLite_GetAttributeContainerByIndex_Cache(
         container_type, identifier.seq - 1)

\* The containers of all rows of a table, in rowid order.
ContainersOfRows(container_type, table) ==
  [n \in 1..Len(table) |-> ContainerOfRow(container_type, table[n], n)]

\* ORDER BY the timestamp column: rows with equal timestamps come out in
\* rowid order (SQLite scans the table by rowid and its sorter keeps the
\* scan order of equal keys).
RECURSIVE OrderByTimestamp(_)
OrderByTimestamp(containers) ==
  IF containers = <<>> THEN <<>>
  ELSE LET least ==
             CHOOSE i \in 1..Len(containers) :
               /\ \A j \in 1..Len(containers) :
                    containers[i].attr <= containers[j].attr
               /\ \A j \in 1..(i - 1) : containers[j].attr > containers[i].attr
       IN <<containers[least]>> \o OrderByTimestamp(Remove(containers, least))

\* _GetAttributeContainersWithFilter consumed to the end: the rows of the
\* table that pass the filter expression (the WHERE clause), in rowid
\* order or ordered by timestamp; keep holds the containers that pass.
SQLite_GetAttributeContainersWithFilter(op, container_type, keep, order_by) ==
  IF connection = "None" THEN Raised(op, "AttributeError")
  ELSE IF QueryFailsFor(container_type) THEN Raised(op, "BackendError")
  ELSE LET rows == SelectSeq(
                     ContainersOfRows(container_type,
                                      file.tables[container_type]),
                     LAMBDA container : container \in keep)
       IN Yielded(op, IF order_by THEN OrderByTimestamp(rows) ELSE rows)

\* The containers of the rows of a table, as a set.
AllContainers(container_type) ==
  {ContainerOfRow(container_type, file.tables[container_type][n], n) :
     n \in 1..Len(file.tables[container_type])}

\* A variant of GetAttributeContainers that orders the rows by timestamp.
SQLite_GetAttributeContainers_Result_Ordered(container_type) ==
  SQLite_GetAttributeContainersWithFilter(
    "iterate", container_type, AllContainers(container_type), TRUE)

\* SQLiteStorageFile.GetAttributeContainers, consumed to the end.
SQLite_GetAttributeContainers_Result(container_type) ==
  SQLite_GetAttributeContainersWithFilter(
    "iterate", container_type, AllContainers(container_type), FALSE)

\* SQLiteStorageFile.GetEventTagByEventIdentifier.
SQLite_GetEventTagByEventIdentifier_Result(event_identifier) ==
  IF ~use_schema THEN Returned("event_tag_for", None)
  ELSE IF event_identifier = NoIdentifier
    THEN Raised("event_tag_for", "AttributeError")
  ELSE LET generator ==
             SQLite_GetAttributeContainersWithFilter(
               "event_tag_for", CONTAINER_TYPE_EVENT_TAG,
               {event_tag \in AllContainers(CONTAINER_TYPE_EVENT_TAG) :
                  event_tag.ref_identifier.seq = event_identifier.seq},
               FALSE)
       IN IF generator.out # "ok" THEN generator
          ELSE IF Len(generator.containers) # 1
            THEN Returned("event_tag_for", None)
          ELSE Returned("event_tag_for", generator.containers[1])

\* The WHERE clause SQLiteStorageFile.GetSortedEvents builds, applied to an
\* event.  A bound that is None or 0 is left out of the clause.
SQLite_FilterExpression(time_range, event) ==
  time_range.set =>
    /\ ((time_range.start_given /\ time_range.start_timestamp # 0) =>
          event.attr >= time_range.start_timestamp)
    /\ ((time_range.end_given /\ time_range.end_timestamp # 0) =>
          event.attr <= time_range.end_timestamp)

\* A variant of GetSortedEvents that leaves out the ORDER BY clause.
SQLite_GetSortedEvents_Result_Unordered(time_range) ==
  SQLite_GetAttributeContainersWithFilter(
    "sorted_events", CONTAINER_TYPE_EVENT,
    {event \in AllContainers(CONTAINER_TYPE_EVENT) :
       SQLite_FilterExpression(time_range, event)}, FALSE)

\* SQLiteStorageFile.GetSortedEvents, consumed to the end.
SQLite_GetSortedEvents_Result(time_range) ==
  SQLite_GetAttributeContainersWithFilter(
    "sorted_events", CONTAINER_TYPE_EVENT,
    {event \in AllContainers(CONTAINER_TYPE_EVENT) :
       SQLite_FilterExpression(time_range, event)}, TRUE)

(***************************************************************************)
(* SQLiteStorageFile: the operations.                                      *)
(***************************************************************************)
\* A variant of _CheckStorageMetadata without the test against the current
\* format version.
CheckStorageMetadata_Raises_AcceptingNewer(metadata_values, check_readable_only) ==
  \E version \in {ParseDecimal(metadata_values.format_version)} :
     \/ metadata_values.format_version = <<>>
     \/ ~version.ok
     \/ /\ ~check_readable_only
        /\ version.value < APPEND_COMPATIBLE_FORMAT_VERSION
     \/ version.value < READ_COMPATIBLE_FORMAT_VERSION
     \/ metadata_values.compression_format \notin COMPRESSION_FORMATS
     \/ metadata_values.serialization_format # SERIALIZER_FORMAT_JSON
     \/ metadata_values.storage_type \notin STORAGE_TYPES

\* _CheckStorageMetadata: TRUE when it raises.
CheckStorageMetadata_Raises(metadata_values, check_readable_only) ==
  \E version \in {ParseDecimal(metadata_values.format_version)} :
     \/ metadata_values.format_version = <<>>
     \/ ~version.ok
     \/ /\ ~check_readable_only
        /\ version.value < APPEND_COMPATIBLE_FORMAT_VERSION
     \/ version.value < READ_COMPATIBLE_FORMAT_VERSION
     \/ version.value > FORMAT_VERSION
     \/ metadata_values.compression_format \notin COMPRESSION_FORMATS
     \/ metadata_values.serialization_format # SERIALIZER_FORMAT_JSON
     \/ metadata_values.storage_type \notin STORAGE_TYPES

\* _ReadAndCheckStorageMetadata: the error raised, "ok" if none.
ReadAndCheckStorageMetadata_Out(check_readable_only) ==
  IF ~file.metadata.present THEN "InvalidFormat"
  ELSE IF CheckStorageMetadata_Raises(file.metadata, check_readable_only)
    THEN "UnsupportedFormat"
  ELSE "ok"

\* __init__: the compression format of a store of the given storage type.
CompressionFormat(type) ==
  IF type = STORAGE_TYPE_SESSION THEN "zlib" ELSE "none"

\* A variant of _WriteMetadata that writes the values of a session store
\* whatever the store was constructed with.
WriteMetadata_OfSession ==
  Metadata(FormatDecimal(FORMAT_VERSION), "zlib", SERIALIZER_FORMAT_JSON,
           STORAGE_TYPE_SESSION)

\* _WriteMetadata: the metadata table it creates, of the values the store
\* was constructed with (an open that read a metadata table never writes
\* one to the same file).
WriteMetadata ==
  Metadata(FormatDecimal(FORMAT_VERSION), CompressionFormat(storage_type),
           SERIALIZER_FORMAT_JSON, storage_type)

\* _UpdateStorageMetadataFormatVersion: the metadata table it leaves.
UpdateStorageMetadataFormatVersion(metadata) ==
  IF ParseDecimal(metadata.format_version).value >=
       UPGRADE_COMPATIBLE_FORMAT_VERSION
    THEN [metadata EXCEPT !.format_version = FormatDecimal(FORMAT_VERSION)]
    ELSE metadata

\* The end of Open: the counters of the referenced container types are set
\* from the number of rows in the file.
InitializeSequenceNumbers(opened_file) ==
  [t \in CONTAINER_TYPES |->
     IF t \in REFERENCED_CONTAINER_TYPES
       THEN (IF opened_file.has_tables THEN Len(opened_file.tables[t]) ELSE 0)
       ELSE sequence_numbers[t]]

\* A variant of the read-only Open that does not store the read_only
\* argument in _read_only.
SQLite_OpenReadOnly_KeepingReadOnly ==
  LET out == ReadAndCheckStorageMetadata_Out(TRUE)
  IN /\ is_open' = TRUE
     /\ connection' = "connected"
     /\ last' = Called(Raised("open", out))
     /\ UNCHANGED <<file, attribute_container_cache, read_only,
                    generator_vars>>
     /\ IF out # "ok"
          THEN UNCHANGED <<sequence_numbers, format_version, storage_type,
                           use_schema>>
          ELSE /\ format_version' =
                    ParseDecimal(file.metadata.format_version).value
               /\ storage_type' = file.metadata.storage_type
               /\ use_schema' =
                    (ParseDecimal(file.metadata.format_version).value >=
                       WITH_SCHEMA_FORMAT_VERSION)
               /\ sequence_numbers' = InitializeSequenceNumbers(file)

\* SQLiteStorageFile.Open with read_only=True, the guard passed and the
\* file connected.
SQLite_OpenReadOnly ==
  LET out == ReadAndCheckStorageMetadata_Out(TRUE)
  IN /\ is_open' = TRUE
     /\ connection' = "connected"
     /\ read_only' = TRUE
     /\ last' = Called(Raised("open", out))
     /\ UNCHANGED <<file, attribute_container_cache, generator_vars>>
     /\ IF out # "ok"
          THEN UNCHANGED <<sequence_numbers, format_version, storage_type,
                           use_schema>>
          ELSE /\ format_version' =
                    ParseDecimal(file.metadata.format_version).value
               /\ storage_type' = file.metadata.storage_type
               /\ use_schema' =
                    (ParseDecimal(file.metadata.format_version).value >=
                       WITH_SCHEMA_FORMAT_VERSION)
               /\ sequence_numbers' = InitializeSequenceNumbers(file)

\* SQLiteStorageFile.Open with read_only=False, the guard passed and the
\* file connected (and created when it did not exist).
SQLite_OpenWritable ==
  LET out == IF file.metadata.present
               THEN ReadAndCheckStorageMetadata_Out(FALSE) ELSE "ok"
      new_use_schema ==
        IF file.metadata.present
          THEN ParseDecimal(file.metadata.format_version).value >=
                 WITH_SCHEMA_FORMAT_VERSION
          ELSE use_schema
      new_metadata ==
        IF file.metadata.present
          THEN UpdateStorageMetadataFormatVersion(file.metadata)
          ELSE WriteMetadata
      opened_file ==
        [file EXCEPT !.exists = TRUE, !.metadata = new_metadata,
                     !.has_tables = TRUE,
                     !.layout = IF file.has_tables THEN file.layout
                                ELSE IF new_use_schema THEN "schema"
                                ELSE "legacy"]
  IN /\ is_open' = TRUE
     /\ connection' = "connected"
     /\ read_only' = FALSE
     /\ last' = Called(Raised("open", out))
     /\ UNCHANGED <<attribute_container_cache, generator_vars>>
     /\ IF out # "ok"
          THEN /\ file' = [file EXCEPT !.exists = TRUE]
               /\ UNCHANGED <<sequence_numbers, format_version, storage_type,
                              use_schema>>
          ELSE /\ file' = opened_file
               /\ use_schema' = new_use_schema
               /\ format_version' =
                    IF file.metadata.present
                      THEN ParseDecimal(file.metadata.format_version).value
                      ELSE format_version
               /\ storage_type' =
                    IF file.metadata.present
                      THEN file.metadata.storage_type ELSE storage_type
               /\ sequence_numbers' = InitializeSequenceNumbers(opened_file)

\* SQLiteStorageFile.Open.
SQLite_Open(read_only_argument) ==
  /\ backend = "sqlite"
  /\ IF is_open
       THEN /\ last' = Called(Raised("open", "AlreadyOpen"))
            /\ UNCHANGED <<is_open, sequence_numbers, sqlite_vars>>
       ELSE IF read_only_argument /\ ~file.exists
         THEN \* sqlite3.connect raises: unable to open database file
              /\ last' = Called(Raised("open", "OperationalError"))
              /\ UNCHANGED <<is_open, sequence_numbers, sqlite_vars>>
       ELSE IF read_only_argument THEN SQLite_OpenReadOnly
       ELSE SQLite_OpenWritable
  /\ UNCHANGED <<backend, fake_vars>>

\* SQLiteStorageFile.Close.
SQLite_Close ==
  /\ backend = "sqlite"
  /\ IF ~is_open
       THEN /\ last' = Called(Raised("close", "AlreadyClosed"))
            /\ UNCHANGED <<is_open, connection>>
       ELSE /\ connection' = "None"
            /\ is_open' = FALSE
            /\ last' = Called(Raised("close", "ok"))
  /\ UNCHANGED <<backend, sequence_numbers, fake_vars, file, read_only,
                 format_version, storage_type, use_schema,
                 attribute_container_cache, generator_vars>>

\* The number of rows in the file, all tables.
NumberOfRows == SumLen(file.tables, CONTAINER_TYPES)

\* SQLiteStorageFile._WriteNewAttributeContainer: the error raised, "ok" if
\* none.
SQLite_WriteNew_Out(container) ==
  IF BeforeSerialize_Raises(container) THEN "UnsupportedIdentifier"
  ELSE IF QueryFailsFor(container.CONTAINER_TYPE) THEN "BackendError"
  ELSE "ok"

\* SQLiteStorageFile._WriteNewAttributeContainer: the caller's container as
\* the call leaves it.
SQLite_WriteNew_Container(container) ==
  LET identified ==
        [container EXCEPT !.identifier = SQLTableIdentifier(
           container.CONTAINER_TYPE,
           GetAttributeContainerNextSequenceNumber(container.CONTAINER_TYPE))]
  IN IF BeforeSerialize_Raises(identified) THEN identified
     ELSE UpdateAttributeContainerBeforeSerialize(identified)

\* Whether _WriteNewAttributeContainer caches the container it wrote.
SQLite_WriteNew_Caches(container) ==
  /\ storage_type = STORAGE_TYPE_SESSION
  /\ container.CONTAINER_TYPE = CONTAINER_TYPE_EVENT_SOURCE

\* BaseStore.AddAttributeContainer on a SQLiteStorageFile.
SQLite_AddAttributeContainer(container) ==
  /\ backend = "sqlite"
  /\ IF SQLite_RaiseIfNotWritable
       THEN /\ last' = Called(Raised("add", "NotWritable"))
            /\ UNCHANGED <<sequence_numbers, file, attribute_container_cache>>
       ELSE LET t == container.CONTAINER_TYPE
                out == SQLite_WriteNew_Out(container)
                written == SQLite_WriteNew_Container(container)
            IN /\ sequence_numbers[t] < MaxSequenceNumber
               /\ NumberOfRows < MaxContainers
               /\ sequence_numbers' = [sequence_numbers EXCEPT ![t] = @ + 1]
               /\ last' = Called([Raised("add", out) EXCEPT
                                    !.container = written])
               /\ IF out # "ok"
                    THEN UNCHANGED <<file, attribute_container_cache>>
                    ELSE /\ file' = [file EXCEPT !.tables[t] =
                                       Append(@, Row(written))]
                         /\ attribute_container_cache' =
                              IF SQLite_WriteNew_Caches(container)
                                THEN CacheAttributeContainerByIndex(
                                       attribute_container_cache, written,
                                       written.identifier.seq - 1)
                                ELSE attribute_container_cache
  /\ UNCHANGED <<backend, is_open, fake_vars, connection, read_only,
                 format_version, storage_type, use_schema, generator_vars>>

\* SQLiteStorageFile._WriteExistingAttributeContainer: the error raised,
\* "ok" if none.  The UPDATE names the schema columns whatever the layout
\* in use, and changes nothing when no row has the identifier.
SQLite_WriteExisting_Out(container) ==
  IF container.identifier.kind # "sql" THEN "UnsupportedIdentifier"
  ELSE IF container.CONTAINER_TYPE \notin CONTAINER_SCHEMAS
    THEN "UnsupportedContainerType"
  ELSE IF BeforeSerialize_Raises(container) THEN "UnsupportedIdentifier"
  ELSE IF ~file.has_tables \/ file.layout # "schema" THEN "BackendError"
  ELSE "ok"

\* BaseStore.UpdateAttributeContainer on a SQLiteStorageFile.
SQLite_UpdateAttributeContainer(container) ==
  /\ backend = "sqlite"
  /\ IF SQLite_RaiseIfNotWritable
       THEN /\ last' = Called(Raised("update", "NotWritable"))
            /\ UNCHANGED file
       ELSE LET t == container.CONTAINER_TYPE
                out == SQLite_WriteExisting_Out(container)
                written == UpdateAttributeContainerBeforeSerialize(container)
                n == container.identifier.seq
            IN IF out # "ok"
                 THEN /\ last' = Called(Raised("update", out))
                      /\ UNCHANGED file
                 ELSE /\ last' = Called(Returned("update", written))
                      /\ file' = IF n \in 1..Len(file.tables[t])
                                   THEN [file EXCEPT !.tables[t][n] =
                                           Row(written)]
                                   ELSE file
  /\ UNCHANGED <<base_vars, fake_vars, connection, read_only, format_version,
                 storage_type, use_schema, attribute_container_cache,
                 generator_vars>>

\* SQLiteStorageFile.GetAttributeContainerByIndex: the call returns what
\* its _Result operator gives and leaves the cache its _Cache operator gives.
SQLite_GetAttributeContainerByIndex(container_type, index) ==
  /\ backend = "sqlite"
  /\ attribute_container_cache' =
       SQLite_GetAttributeContainerByIndex_Cache(container_type, index)
  /\ cursors' =
       IF GetCachedAttributeContainer(container_type, index) # None
         THEN cursors ELSE ExecuteAndFetchOne
  /\ UNCHANGED <<base_vars, fake_vars, file, connection, read_only,
                 format_version, storage_type, use_schema, generators, last>>

\* SQLiteStorageFile.GetAttributeContainerByIdentifier.
SQLite_GetAttributeContainerByIdentifier(container_type, identifier) ==
  /\ backend = "sqlite"
  /\ attribute_container_cache' =
       SQLite_GetAttributeContainerByIdentifier_Cache(container_type,
                                                      identifier)
  /\ cursors' =
       IF \/ identifier.kind # "sql"
          \/ GetCachedAttributeContainer(
               container_type, identifier.seq - 1) # None
         THEN cursors ELSE ExecuteAndFetchOne
  /\ UNCHANGED <<base_vars, fake_vars, file, connection, read_only,
                 format_version, storage_type, use_schema, generators, last>>

\* The other read operations of a SQLiteStorageFile: each returns what its
\* _Result operator gives for the arguments it is called with, and none
\* changes the store.  GetAttributeContainers and GetSortedEvents stand for
\* the call with the generator consumed to the end at once, and
\* GetEventTagByEventIdentifier consumes its generator itself: their local
\* cursors are gone when the call is over.  The two counting calls run
\* their query on _cursor.
SQLite_GetAttributeContainers == backend = "sqlite" /\ UNCHANGED vars
SQLite_GetEventTagByEventIdentifier == backend = "sqlite" /\ UNCHANGED vars
SQLite_GetNumberOfAttributeContainers ==
  /\ backend = "sqlite"
  /\ cursors' = ExecuteAndFetchOne
  /\ UNCHANGED <<base_vars, fake_vars, file, connection, read_only,
                 format_version, storage_type, use_schema,
                 attribute_container_cache, generators, last>>
SQLite_HasAttributeContainers ==
  /\ backend = "sqlite"
  /\ cursors' = ExecuteAndFetchOne
  /\ UNCHANGED <<base_vars, fake_vars, file, connection, read_only,
                 format_version, storage_type, use_schema,
                 attribute_container_cache, generators, last>>
SQLite_GetSortedEvents == backend = "sqlite" /\ UNCHANGED vars

\* SQLiteStorageFile.GetSystemConfigurationIdentifier.
SQLite_GetSystemConfigurationIdentifier ==
  /\ backend = "sqlite"
  /\ sequence_numbers[CONTAINER_TYPE_SESSION_CONFIGURATION] < MaxSequenceNumber
  /\ sequence_numbers' =
       [sequence_numbers EXCEPT ![CONTAINER_TYPE_SESSION_CONFIGURATION] =
          GetAttributeContainerNextSequenceNumber(
            CONTAINER_TYPE_SESSION_CONFIGURATION)]
  /\ last' = Called(ReturnedIdentifier(
                "next_system_configuration_identifier",
                SQLTableIdentifier(
                  CONTAINER_TYPE_SESSION_CONFIGURATION,
                  GetAttributeContainerNextSequenceNumber(
                    CONTAINER_TYPE_SESSION_CONFIGURATION))))
  /\ UNCHANGED <<backend, is_open, fake_vars, sqlite_vars>>

\* SQLiteStorageFile.__init__: another store object takes over the file
\* that the closed one leaves behind.
SQLite_NewInstance ==
  /\ backend = "sqlite"
  /\ ~is_open
  /\ sequence_numbers' = [t \in CONTAINER_TYPES |-> 0]
  /\ attribute_container_cache' = <<>>
  /\ connection' = "None"
  /\ read_only' = TRUE
  /\ format_version' = FORMAT_VERSION
  /\ storage_type' = STORAGE_TYPE_SESSION
  /\ use_schema' = TRUE
  /\ last' = Called(Raised("init", "ok"))
  /\ UNCHANGED <<backend, is_open, fake_vars, file, generator_vars>>

SQLite_Next ==
  \/ \E read_only_argument \in BOOLEAN : SQLite_Open(read_only_argument)
  \/ SQLite_Close
  \/ \E c \in NewContainers("sqlite") : SQLite_AddAttributeContainer(c)
  \/ \E c \in ExistingContainers("sqlite") : SQLite_UpdateAttributeContainer(c)
  \/ \E t \in CONTAINER_TYPES : \E i \in Indexes :
       SQLite_GetAttributeContainerByIndex(t, i)
  \/ \E t \in CONTAINER_TYPES : \E i \in Identifiers("sqlite", t) :
       SQLite_GetAttributeContainerByIdentifier(t, i)
  \/ SQLite_GetAttributeContainers
  \/ SQLite_GetEventTagByEventIdentifier
  \/ SQLite_GetNumberOfAttributeContainers
  \/ SQLite_HasAttributeContainers
  \/ SQLite_GetSortedEvents
  \/ SQLite_NewInstance

Next == Fake_Next \/ SQLite_Next

Spec == Init /\ [][Next]_vars

\* The stores with GetSystemConfigurationIdentifier among their operations.
\* The call touches nothing but the counter of the session configurations
\* and is open to the caller in every state, so the states it adds are
\* those of Spec once more for every value of that counter.
NextWithSystemConfigurationIdentifier ==
  \/ Next
  \/ Fake_GetSystemConfigurationIdentifier
  \/ SQLite_GetSystemConfigurationIdentifier

SpecWithSystemConfigurationIdentifier ==
  Init /\ [][NextWithSystemConfigurationIdentifier]_vars

(***************************************************************************)
(* The operations of a store, whichever class it is an instance of.        *)
(***************************************************************************)
Open(read_only_argument) == Fake_Open \/ SQLite_Open(read_only_argument)

GetAttributeContainerByIdentifier_Result(container_type, identifier) ==
  IF backend = "fake"
    THEN Fake_GetAttributeContainerByIdentifier_Result(container_type,
                                                       identifier)
    ELSE SQLite_GetAttributeContainerByIdentifier_Result(container_type,
                                                         identifier)
GetAttributeContainerByIndex_Result(container_type, index) ==
  IF backend = "fake"
    THEN Fake_GetAttributeContainerByIndex_Result(container_type, index)
    ELSE SQLite_GetAttributeContainerByIndex_Result(container_type, index)
GetAttributeContainers_Result(container_type) ==
  IF backend = "fake" THEN Fake_GetAttributeContainers_Result(container_type)
  ELSE SQLite_GetAttributeContainers_Result(container_type)
GetEventTagByEventIdentifier_Result(event_identifier) ==
  IF backend = "fake"
    THEN Fake_GetEventTagByEventIdentifier_Result(event_identifier)
    ELSE SQLite_GetEventTagByEventIdentifier_Result(event_identifier)
GetNumberOfAttributeContainers_Result(container_type) ==
  IF backend = "fake"
    THEN Fake_GetNumberOfAttributeContainers_Result(container_type)
    ELSE SQLite_GetNumberOfAttributeContainers_Result(container_type)
HasAttributeContainers_Result(container_type) ==
  IF backend = "fake" THEN Fake_HasAttributeContainers_Result(container_type)
  ELSE SQLite_HasAttributeContainers_Result(container_type)
GetSortedEvents_Result(time_range) ==
  IF backend = "fake" THEN Fake_GetSortedEvents_Result(time_range)
  ELSE SQLite_GetSortedEvents_Result(time_range)

(***************************************************************************)
(* Properties.                                                             *)
(***************************************************************************)
\* The step is a call of the operation: the calls of open, close, add and
\* update leave their name and outcome in last (a call that leaves last as
\* it was has changed nothing at all).
IsCall(op) == last' # last /\ last'.op = op

\* The step is a change the producer makes to its object.
IsMutation == producer' # producer /\ last' = last

\* What a store holds: the counters, the containers and rows, the metadata
\* and the cache.
store_vars ==
  <<sequence_numbers, attribute_containers, event_tag_per_event_identifier,
    file, attribute_container_cache>>

\* The values two containers are compared on: type, identifier, schema
\* attribute and runtime reference.
SameFields(a, b) ==
  /\ a.CONTAINER_TYPE = b.CONTAINER_TYPE
  /\ a.identifier = b.identifier
  /\ a.attr = b.attr
  /\ a.ref_identifier = b.ref_identifier

\* The values that make up the content of a container, its identifier left
\* aside.
SameContent(a, b) ==
  /\ a.CONTAINER_TYPE = b.CONTAINER_TYPE
  /\ a.attr = b.attr
  /\ a.ref_identifier = b.ref_identifier

AnyTimeRange == TimeRanges \cup {NoTimeRange}

\* C1: while the store is closed (never opened, or closed again), every
\* data operation fails with an error: an add or update that ran on the
\* closed store raised, and every lookup, iteration, count, has, tag lookup
\* and sorted_events call raises instead of returning something.
C1_ClosedStoreFailsEveryDataOperation ==
  ~is_open =>
    /\ last.op \in {"add", "update"} => last.out # "ok"
    /\ \A t \in CONTAINER_TYPES :
         /\ \A i \in Identifiers(backend, t) :
              GetAttributeContainerByIdentifier_Result(t, i).out # "ok"
         /\ \A i \in Indexes :
              GetAttributeContainerByIndex_Result(t, i).out # "ok"
         /\ GetAttributeContainers_Result(t).out # "ok"
         /\ GetNumberOfAttributeContainers_Result(t).out # "ok"
         /\ HasAttributeContainers_Result(t).out # "ok"
    /\ \A i \in Identifiers(backend, CONTAINER_TYPE_EVENT) :
         GetEventTagByEventIdentifier_Result(i).out # "ok"
    /\ \A r \in AnyTimeRange : GetSortedEvents_Result(r).out # "ok"

\* C2: an add or update on a store that is closed, or on a SQLite store
\* opened read-only, raises NotWritable and leaves the counters, the
\* containers, the rows, the metadata and the cache as they were.
C2_NotWritableChangesNothing ==
  [][( /\ (IsCall("add") \/ IsCall("update"))
        /\ (~is_open \/ (backend = "sqlite" /\ read_only)) )
      => /\ last'.out = "NotWritable"
         /\ UNCHANGED store_vars]_vars

\* C2 witness: an add or update was refused on a SQLite store that is open
\* read-only on a file holding rows.
C2_Witness ==
  /\ backend = "sqlite" /\ is_open /\ read_only
  /\ NumberOfRows > 0
  /\ last.op \in {"add", "update"} /\ last.out = "NotWritable"

\* C3: open on a store that is open raises AlreadyOpen and leaves the store
\* open, in the mode it was in, with the same connection, contents and
\* counters.
C3_OpenOnOpenStoreIsRefused ==
  [][(IsCall("open") /\ is_open)
      => /\ last'.out = "AlreadyOpen"
         /\ is_open'
         /\ UNCHANGED <<read_only, connection, format_version, storage_type,
                        use_schema, store_vars>>]_vars

\* C3 witness: open was refused on a SQLite store open for writing that
\* holds rows.
C3_Witness ==
  /\ backend = "sqlite" /\ is_open /\ ~read_only /\ NumberOfRows > 0
  /\ last.op = "open" /\ last.out = "AlreadyOpen"

\* C4: a close that follows a successful open succeeds and leaves the store
\* closed; a close that follows the construction, another close or an open
\* that raised on the closed store (no successful open in between) raises
\* AlreadyClosed and changes nothing.
C4_CloseAfterNoSuccessfulOpenIsRefused ==
  [][IsCall("close") =>
       IF last.op = "open" /\ last.out = "ok"
         THEN last'.out = "ok" /\ ~is_open'
       ELSE IF \/ last.op \in {"init", "close"}
               \/ last.op = "open" /\ last.out \notin {"ok", "AlreadyOpen"}
         THEN /\ last'.out = "AlreadyClosed"
              /\ UNCHANGED <<is_open, read_only, connection, store_vars>>
       ELSE TRUE]_vars

\* The file passes the metadata check of an open in the given mode.
FileAccepted(read_only_argument) ==
  /\ file.exists
  /\ ReadAndCheckStorageMetadata_Out(read_only_argument) = "ok"

\* C5: a closed store can be opened again.  An open that succeeds leaves a
\* file that passes the metadata check in both modes, the file keeps
\* passing it, and an open issued on a closed store (of a file that passes
\* the check) succeeds: the store is then open in the mode requested,
\* refuses no count, and refuses a write exactly when opened read-only.
C5_ClosedStoreOpensAgain ==
  [][/\ (IsCall("open") /\ ~is_open) =>
          \A read_only_argument \in BOOLEAN :
            /\ ( /\ Open(read_only_argument)
                 /\ backend = "sqlite" => FileAccepted(read_only_argument) )
               => /\ last'.out = "ok"
                  /\ is_open'
                  /\ backend = "sqlite" =>
                       /\ read_only' = read_only_argument
                       /\ connection' = "connected"
                       /\ SQLite_RaiseIfNotWritable' = read_only_argument
                  /\ backend = "fake" => ~Fake_RaiseIfNotWritable'
                  /\ \A t \in CONTAINER_TYPES :
                       GetNumberOfAttributeContainers_Result(t)'.out = "ok"
            /\ ( /\ Open(read_only_argument)
                 /\ last'.out = "ok" /\ backend = "sqlite" )
               => FileAccepted(TRUE)' /\ FileAccepted(FALSE)'
     /\ (FileAccepted(TRUE) => FileAccepted(TRUE)')
     /\ (FileAccepted(FALSE) => FileAccepted(FALSE)')]_vars

\* C5 witness: a SQLite store was opened again, read-only, on the file an
\* earlier session of it wrote its rows to.
C5_Witness ==
  /\ backend = "sqlite" /\ is_open /\ read_only
  /\ sequence_numbers[CONTAINER_TYPE_EVENT_TAG] > 0
  /\ last.op = "open" /\ last.out = "ok"

\* C6: after an add that returned without error, get_by_identifier with the
\* type and the identifier the add gave the container returns a container
\* with the same type, identifier, attribute and reference.
C6_GetByIdentifierReturnsAddedContainer ==
  (is_open /\ last.op = "add" /\ last.out = "ok") =>
    LET result == GetAttributeContainerByIdentifier_Result(
                    last.container.CONTAINER_TYPE, last.container.identifier)
    IN /\ result.out = "ok"
       /\ SameFields(result.container, last.container)

\* C7: on an open SQLite store, get_by_index(t, i) for 0 <= i < count(t)
\* returns a container whose identifier is the row identifier (t, i + 1),
\* from the cache as from the table.
C7_GetByIndexIdentifierIsIndexPlusOne ==
  (backend = "sqlite" /\ is_open) =>
    \A t \in CONTAINER_TYPES :
      LET count == SQLite_GetNumberOfAttributeContainers_Result(t)
      IN count.out = "ok" =>
           \A i \in 0..(count.number - 1) :
             LET result == SQLite_GetAttributeContainerByIndex_Result(t, i)
             IN /\ result.out = "ok"
                /\ result.container.identifier = SQLTableIdentifier(t, i + 1)

\* C7 witness: an open SQLite store holds two rows of a type, the first of
\* them in the cache and the second not.
C7_Witness ==
  /\ backend = "sqlite" /\ is_open
  /\ \E t \in CONTAINER_TYPES :
       /\ SQLite_GetNumberOfAttributeContainers_Result(t).number = 2
       /\ GetCachedAttributeContainer(t, 0) # None
       /\ GetCachedAttributeContainer(t, 1) = None

StoredEvents == GetAttributeContainers_Result(CONTAINER_TYPE_EVENT).containers

\* C10: sorted_events without a time range yields every stored event
\* exactly once, and with TimeRange(start, end) exactly the stored events
\* with start <= timestamp <= end, each exactly once.
C10_SortedEventsYieldsTheEventsInRange ==
  \A r \in AnyTimeRange :
    LET result == GetSortedEvents_Result(r)
        events == result.containers
        in_range == {k \in 1..Len(StoredEvents) :
                       r.set => /\ r.start_timestamp <= StoredEvents[k].attr
                                /\ StoredEvents[k].attr <= r.end_timestamp}
    IN result.out = "ok" =>
         /\ Len(events) = Cardinality(in_range)
         /\ \A k \in in_range :
              \E l \in 1..Len(events) : events[l] = StoredEvents[k]

\* C11: on the SQLite store, sorted_events with a time range of which the
\* start and the end are each given or absent yields the stored events that
\* are at or above the start when a start is given and at or below the end
\* when an end is given, whatever the value of the bound (0 and negative
\* values included), and yields them in nondecreasing order of timestamp.
C11_BoundAppliedExactlyWhenGiven ==
  backend = "sqlite" =>
    \A r \in OpenTimeRanges :
      LET result == SQLite_GetSortedEvents_Result(r)
          events == result.containers
          in_range == {event \in AllContainers(CONTAINER_TYPE_EVENT) :
                         /\ r.start_given => event.attr >= r.start_timestamp
                         /\ r.end_given => event.attr <= r.end_timestamp}
      IN result.out = "ok" =>
           /\ {events[k] : k \in 1..Len(events)} = in_range
           /\ Len(events) = Cardinality(in_range)
           /\ \A k \in 1..(Len(events) - 1) :
                events[k].attr <= events[k + 1].attr

\* The step is an add of a container of type t that returned without error.
IsSuccessfulAdd(t) ==
  /\ IsCall("add")
  /\ last'.out = "ok"
  /\ last'.container.CONTAINER_TYPE = t

\* C12: on an open store has(t) is count(t) > 0, and count(t) is the number
\* of adds of type t that returned without error, plus, on a SQLite store,
\* the rows of t in the file when it was opened: count(t) and has(t) never
\* raise on an open store; a call
\* on an open store raises count(t) by one when it is an add of type t that
\* returns without error, and leaves it in every other case (update, a read,
\* a call that raises); the open of a SQLite store makes count(t) the number
\* of rows of t in the file, and a FakeStore keeps count(t) over close and
\* open.
C12_CountIsNumberOfSuccessfulAdds ==
  [][\A t \in CONTAINER_TYPES :
       LET before == GetNumberOfAttributeContainers_Result(t)
           after == GetNumberOfAttributeContainers_Result(t)'
           has_after == HasAttributeContainers_Result(t)'
       IN /\ is_open' =>
               /\ after.out = "ok"
               /\ has_after.out = "ok"
               /\ (has_after.number = 1) = (after.number > 0)
          /\ (before.out = "ok" /\ after.out = "ok") =>
               after.number =
                 before.number + (IF IsSuccessfulAdd(t) THEN 1 ELSE 0)
          /\ (backend = "sqlite" /\ IsCall("open") /\ last'.out = "ok") =>
               after.number =
                 (IF file.has_tables THEN Len(file.tables[t]) ELSE 0)]_vars

\* The identifiers of the backend's kind a caller holds for events.
EventIdentifiers ==
  {OwnIdentifier(backend, CONTAINER_TYPE_EVENT, n) : n \in 1..MaxSequenceNumber}

\* C13: event_tag_for(e) returns the tag when exactly one event tag that
\* refers to the event e has been added, and None when none or more than
\* one has.  While no event tag is stored, event_tag_for returns nothing
\* but None, whatever the event identifier; after the add of the first event tag it returns
\* a tag with the content of the one added for the event that tag refers
\* to and None for every other event; after the add of a second event tag
\* straight after the first it returns None for an event both refer to,
\* and for an event one of them refers to a tag with the content of that
\* one.
C13_EventTagForReturnsTheOnlyTag ==
  [][LET count == GetNumberOfAttributeContainers_Result(
                    CONTAINER_TYPE_EVENT_TAG)
         first == last.container
         second == last'.container
         tag_for(e) == GetEventTagByEventIdentifier_Result(e)'
     IN /\ (is_open' /\ count'.out = "ok" /\ count'.number = 0) =>
             \A e \in EventIdentifiers :
               tag_for(e).out = "ok" => tag_for(e).container = None
        /\ (IsSuccessfulAdd(CONTAINER_TYPE_EVENT_TAG) /\ count.out = "ok") =>
             /\ count.number = 0 =>
                  \A e \in EventIdentifiers :
                    /\ tag_for(e).out = "ok"
                    /\ IF second.ref_identifier = e
                         THEN SameContent(tag_for(e).container, second)
                         ELSE tag_for(e).container = None
             /\ ( /\ count.number = 1
                  /\ last.op = "add" /\ last.out = "ok"
                  /\ first.CONTAINER_TYPE = CONTAINER_TYPE_EVENT_TAG ) =>
                  \A e \in EventIdentifiers :
                    /\ tag_for(e).out = "ok"
                    /\ IF first.ref_identifier = e /\ second.ref_identifier = e
                         THEN tag_for(e).container = None
                       ELSE IF first.ref_identifier = e
                         THEN SameContent(tag_for(e).container, first)
                       ELSE IF second.ref_identifier = e
                         THEN SameContent(tag_for(e).container, second)
                       ELSE tag_for(e).container = None]_vars

\* update, whichever class the store is an instance of.
UpdateAttributeContainer(container) ==
  \/ Fake_UpdateAttributeContainer(container)
  \/ SQLite_UpdateAttributeContainer(container)

\* The kind of identifier the store issues.
OwnKind == IF backend = "fake" THEN "fake" ELSE "sql"

\* The store holds a record of the type under the identifier.
HasRecord(container_type, identifier) ==
  IF backend = "fake"
    THEN KeyIndex(attribute_containers[container_type],
                  CopyToString(identifier)) # 0
    ELSE /\ file.has_tables
         /\ identifier.seq \in 1..Len(file.tables[container_type])

\* C14: on a store open for writing, update(c) with an identifier of the
\* store's own kind (and, on the SQLite store, references of its own kind)
\* under which no record of c's type is stored raises MissingContainer and
\* leaves the counters, the containers, the rows and the cache as they
\* were; so an update that returns without error found its record.
C14_UpdateOfMissingRecordIsRefused ==
  [][IsCall("update") =>
       \A c \in ExistingContainers(backend) :
         ( /\ UpdateAttributeContainer(c)
           /\ is_open /\ (backend = "sqlite" => ~read_only)
           /\ c.identifier.kind = OwnKind
           /\ backend = "sqlite" => ~BeforeSerialize_Raises(c)
           /\ ~HasRecord(c.CONTAINER_TYPE, c.identifier) )
         => /\ last'.out = "MissingContainer"
            /\ UNCHANGED store_vars]_vars

\* The records of a store: the containers in memory and their tag index,
\* the rows of the file, and the cached containers.
record_vars ==
  <<attribute_containers, event_tag_per_event_identifier, file,
    attribute_container_cache>>

\* The identifiers that are not of the store's own kind: one of the other
\* backend's kind, and a missing one.
ForeignIdentifiers(container_type) ==
  {OtherIdentifier(backend, container_type, 1), NoIdentifier}

\* C15: on an open store, every operation that takes an identifier rejects
\* one that is of the other backend's kind, or missing, with
\* UnsupportedIdentifier, and touches no record: get_by_identifier and
\* event_tag_for raise it; an add (on a store open for writing) of a
\* container whose reference is such an identifier raises it and leaves the
\* containers, the tag index, the rows and the cache as they were; so does
\* an update of a container under such an identifier.
C15_ForeignIdentifierIsRejected ==
  [][/\ is_open =>
          \A t \in CONTAINER_TYPES : \A i \in ForeignIdentifiers(t) :
            /\ GetAttributeContainerByIdentifier_Result(t, i).out =
                 "UnsupportedIdentifier"
            /\ GetEventTagByEventIdentifier_Result(i).out =
                 "UnsupportedIdentifier"
     /\ ( /\ IsCall("add")
          /\ is_open /\ (backend = "sqlite" => ~read_only)
          /\ last'.container.CONTAINER_TYPE \in
               {CONTAINER_TYPE_EVENT, CONTAINER_TYPE_EVENT_TAG}
          /\ last'.container.ref_identifier.kind # OwnKind )
        => /\ last'.out = "UnsupportedIdentifier"
           /\ UNCHANGED record_vars
     /\ IsCall("update") =>
          \A c \in ExistingContainers(backend) :
            ( /\ UpdateAttributeContainer(c)
              /\ is_open /\ (backend = "sqlite" => ~read_only)
              /\ c.identifier.kind # OwnKind )
            => /\ last'.out = "UnsupportedIdentifier"
               /\ UNCHANGED record_vars]_vars

\* C16: on an open store, get_by_index(t, i) returns None for every i < 0
\* and every i >= count(t), and get_by_identifier(t, id) returns None for
\* every identifier of the store's own kind under which no record of type t
\* is stored; neither raises, and neither changes the cache (they change
\* nothing else in any case).
C16_LookupOfAbsentRecordReturnsNone ==
  is_open =>
    \A t \in CONTAINER_TYPES :
      LET count == GetNumberOfAttributeContainers_Result(t)
      IN /\ count.out = "ok"
         /\ \A i \in Indexes :
              (i < 0 \/ i >= count.number) =>
                /\ GetAttributeContainerByIndex_Result(t, i) =
                     Returned("get_by_index", None)
                /\ backend = "sqlite" =>
                     SQLite_GetAttributeContainerByIndex_Cache(t, i) =
                       attribute_container_cache
         /\ \A n \in 1..MaxSequenceNumber :
              LET identifier == OwnIdentifier(backend, t, n)
              IN ~HasRecord(t, identifier) =>
                   /\ GetAttributeContainerByIdentifier_Result(t, identifier) =
                        Returned("get_by_identifier", None)
                   /\ backend = "sqlite" =>
                        SQLite_GetAttributeContainerByIdentifier_Cache(
                          t, identifier) = attribute_container_cache

\* C17: in the FakeStore, a change the producer makes to the object it
\* handed to add (the object not having been handed to update since)
\* changes nothing of what the store returns: get_by_identifier,
\* get_by_index, iterate and event_tag_for return after the change what
\* they returned before it, for every argument.
C17_AddStoresACopy ==
  [][(backend = "fake" /\ IsMutation /\ producer.op = "add") =>
       /\ \A t \in CONTAINER_TYPES :
            /\ \A i \in Identifiers("fake", t) :
                 Fake_GetAttributeContainerByIdentifier_Result(t, i)' =
                   Fake_GetAttributeContainerByIdentifier_Result(t, i)
            /\ \A i \in Indexes :
                 Fake_GetAttributeContainerByIndex_Result(t, i)' =
                   Fake_GetAttributeContainerByIndex_Result(t, i)
            /\ Fake_GetAttributeContainers_Result(t)' =
                 Fake_GetAttributeContainers_Result(t)
       /\ \A i \in Identifiers("fake", CONTAINER_TYPE_EVENT) :
            Fake_GetEventTagByEventIdentifier_Result(i)' =
              Fake_GetEventTagByEventIdentifier_Result(i)]_vars

\* C17 witness: the producer has changed the object it added as an event
\* tag, and the store still returns, by identifier and for the event, the
\* tag as it was added.
C17_Witness ==
  /\ backend = "fake" /\ is_open
  /\ producer.op = "add"
  /\ producer.container.CONTAINER_TYPE = CONTAINER_TYPE_EVENT_TAG
  /\ producer.container.ref_identifier # NoIdentifier
  /\ LET by_identifier ==
           Fake_GetAttributeContainerByIdentifier_Result(
             CONTAINER_TYPE_EVENT_TAG, producer.container.identifier)
         tag_for == Fake_GetEventTagByEventIdentifier_Result(
                      producer.container.ref_identifier)
     IN /\ by_identifier.container # None
        /\ by_identifier.container.attr # producer.container.attr
        /\ tag_for.container = by_identifier.container

RecordPosition(container_type, identifier) ==
  IF ~HasRecord(container_type, identifier) THEN 0
  ELSE IF backend = "fake"
    THEN KeyIndex(attribute_containers[container_type],
                  CopyToString(identifier))
  ELSE identifier.seq

\* C21: identifiers are not reused.  The identifier a successful add assigns
\* denoted no record of the type before the add (neither one added earlier
\* through this store nor, in a SQLite file, one an earlier session or
\* another instance added), and denotes after the add the record added;
\* and whatever the step, an identifier that denotes a record denotes the
\* record at the same position after it.
C21_IdentifiersAreNotReused ==
  [][\A t \in CONTAINER_TYPES : \A n \in 1..MaxSequenceNumber :
       LET identifier == OwnIdentifier(backend, t, n)
           count == GetNumberOfAttributeContainers_Result(t)'
       IN /\ (IsSuccessfulAdd(t) /\ last'.container.identifier = identifier) =>
               /\ ~HasRecord(t, identifier)
               /\ count.out = "ok"
               /\ RecordPosition(t, identifier)' = count.number
          /\ HasRecord(t, identifier) =>
               RecordPosition(t, identifier)' =
                 RecordPosition(t, identifier)]_vars

\* C22: in every state of an open SQLite store, the event reference of
\* every stored event tag, as iterate and get_by_index return the tag, is an
\* identifier for which get_by_identifier on the event type returns an
\* event.
C22_ReferencesResolve ==
  (backend = "sqlite" /\ is_open) =>
    LET tags == SQLite_GetAttributeContainers_Result(CONTAINER_TYPE_EVENT_TAG)
        resolves(tag) ==
          LET event == SQLite_GetAttributeContainerByIdentifier_Result(
                         CONTAINER_TYPE_EVENT, tag.ref_identifier)
          IN /\ event.out = "ok"
             /\ event.container.CONTAINER_TYPE = CONTAINER_TYPE_EVENT
    IN tags.out = "ok" =>
         \A k \in 1..Len(tags.containers) :
           /\ resolves(tags.containers[k])
           /\ resolves(SQLite_GetAttributeContainerByIndex_Result(
                         CONTAINER_TYPE_EVENT_TAG, k - 1).container)

\* The container types that carry a reference, and the type referred to.
ReferencingTypes ==
  {t \in CONTAINER_TYPES : CONTAINER_SCHEMA_IDENTIFIER_MAPPINGS(t) # {}}
ReferencedType(container_type) ==
  CHOOSE r \in CONTAINER_SCHEMA_IDENTIFIER_MAPPINGS(container_type) : TRUE

\* The container a read returned has its reference as a row identifier of
\* the referenced type on the runtime attribute and nothing under the
\* serialized name.
ReferenceIsRestored(container) ==
  /\ container.ref_identifier.kind = "sql"
  /\ container.ref_identifier.type = ReferencedType(container.CONTAINER_TYPE)
  /\ container.row_identifier = 0

\* C23: on the SQLite store, an event or event tag added with the reference
\* (T, n) is read back with the row identifier (T, n) on its runtime
\* reference attribute and without the serialized attribute: in the states
\* that follow the add (up to the next add, update, open or close) through
\* get_by_index, get_by_identifier and iterate (and sorted_events for an
\* event) at the position of the row written; and in every state of an open
\* store every container of these types that a read returns has a row
\* identifier of the referenced type as its reference and no serialized
\* attribute.
C23_ReferenceIsReadBackAsRowIdentifier ==
  (backend = "sqlite" /\ is_open) =>
    \A t \in ReferencingTypes :
      /\ ( /\ last.op = "add" /\ last.out = "ok"
           /\ last.container.CONTAINER_TYPE = t ) =>
           LET added == last.container
               n == Len(file.tables[t])
               by_index == SQLite_GetAttributeContainerByIndex_Result(t, n - 1)
               by_identifier ==
                 SQLite_GetAttributeContainerByIdentifier_Result(
                   t, SQLTableIdentifier(t, n))
               iterated == SQLite_GetAttributeContainers_Result(t)
               sorted == SQLite_GetSortedEvents_Result(NoTimeRange)
           IN /\ by_index.out = "ok"
              /\ by_index.container.ref_identifier = added.ref_identifier
              /\ ReferenceIsRestored(by_index.container)
              /\ by_identifier.container = by_index.container
              /\ iterated.out = "ok"
              /\ iterated.containers[n] = by_index.container
              /\ t = CONTAINER_TYPE_EVENT =>
                   /\ sorted.out = "ok"
                   /\ \E k \in 1..Len(sorted.containers) :
                        sorted.containers[k] = by_index.container
      /\ \A i \in Indexes :
           LET result == SQLite_GetAttributeContainerByIndex_Result(t, i)
           IN (result.out = "ok" /\ result.container # None) =>
                ReferenceIsRestored(result.container)
      /\ LET result == SQLite_GetAttributeContainers_Result(t)
         IN \A k \in 1..Len(result.containers) :
              ReferenceIsRestored(result.containers[k])
      /\ \A r \in AnyTimeRange :
           LET result == SQLite_GetSortedEvents_Result(r)
           IN \A k \in 1..Len(result.containers) :
                ReferenceIsRestored(result.containers[k])

\* C23 witness: an event tag that refers to the second event was added to a
\* SQLite store and is read back, by index, with that row identifier as its
\* event identifier.
C23_Witness ==
  /\ backend = "sqlite" /\ is_open
  /\ last.op = "add" /\ last.out = "ok"
  /\ last.container.CONTAINER_TYPE = CONTAINER_TYPE_EVENT_TAG
  /\ last.container.ref_identifier =
       SQLTableIdentifier(CONTAINER_TYPE_EVENT, 2)
  /\ \E i \in Indexes :
       LET result == SQLite_GetAttributeContainerByIndex_Result(
                       CONTAINER_TYPE_EVENT_TAG, i)
       IN /\ result.out = "ok"
          /\ result.container.ref_identifier =
               SQLTableIdentifier(CONTAINER_TYPE_EVENT, 2)
          /\ result.container.row_identifier = 0

(***************************************************************************)
(* A store constructed on a file that an earlier run left behind, whatever *)
(* its metadata table holds, and opened, closed and constructed anew.      *)
(***************************************************************************)
\* The texts found under the key format_version: none, a word, a negative
\* number, and the numbers around the limits of the format.
StoredFormatVersions ==
  {<<>>, <<"n", "o", "n", "e">>, <<"-", "1">>} \cup
  {FormatDecimal(number) :
     number \in {READ_COMPATIBLE_FORMAT_VERSION - 1,
                 READ_COMPATIBLE_FORMAT_VERSION, 20200101,
                 FORMAT_VERSION, FORMAT_VERSION + 1}}

\* The metadata tables of the files: every combination of a format version,
\* a compression format, a serialization format and a storage type, the
\* supported values and others.
StoredMetadata ==
  {Metadata(version, compression, serialization, type) :
     version \in StoredFormatVersions,
     compression \in COMPRESSION_FORMATS \cup {"", "lzma"},
     serialization \in {SERIALIZER_FORMAT_JSON, "proto"},
     type \in STORAGE_TYPES \cup {"archive"}}

\* The files: with a metadata table and the container tables in the layout
\* of the format version, or without a metadata table, or not there yet.
StoredFiles ==
  {File(TRUE, metadata, TRUE,
        IF ParseDecimal(metadata.format_version).value >=
             WITH_SCHEMA_FORMAT_VERSION THEN "schema" ELSE "legacy",
        NoTables) : metadata \in StoredMetadata} \cup
  {File(FALSE, NoMetadata, FALSE, "schema", NoTables),
   File(TRUE, NoMetadata, FALSE, "schema", NoTables)}

\* SQLiteStorageFile.__init__ for either storage type, on any of the files.
InitWithStoredFile ==
  /\ backend = "sqlite"
  /\ is_open = FALSE
  /\ sequence_numbers = [t \in CONTAINER_TYPES |-> 0]
  /\ attribute_containers = [t \in CONTAINER_TYPES |-> <<>>]
  /\ event_tag_per_event_identifier = {}
  /\ producer = NoProducer
  /\ file \in StoredFiles
  /\ connection = "None"
  /\ read_only = TRUE
  /\ format_version = FORMAT_VERSION
  /\ storage_type \in STORAGE_TYPES
  /\ use_schema = TRUE
  /\ attribute_container_cache = <<>>
  /\ cursors = [c \in CursorIds |-> <<>>]
  /\ generators = <<>>
  /\ last = Called(Raised("init", "ok"))

NextWithStoredFile ==
  \/ \E read_only_argument \in BOOLEAN : SQLite_Open(read_only_argument)
  \/ SQLite_Close
  \/ SQLite_NewInstance

SpecWithStoredFile == InitWithStoredFile /\ [][NextWithStoredFile]_vars

\* C24: an open of a closed SQLite store on a file that has a metadata table
\* succeeds exactly when the stored format version is a decimal integer
\* between READ_COMPATIBLE (read-only open) or APPEND_COMPATIBLE (writable
\* open) and the current format version, the compression format is none or
\* zlib, the serialization format is json and the storage type is session or
\* task; in every other case it raises UnsupportedFormat.
C24_MetadataCheck ==
  [][(IsCall("open") /\ backend = "sqlite" /\ ~is_open /\ file.exists
        /\ file.metadata.present) =>
       LET version == ParseDecimal(file.metadata.format_version)
           oldest == IF read_only' THEN READ_COMPATIBLE_FORMAT_VERSION
                     ELSE APPEND_COMPATIBLE_FORMAT_VERSION
           passes ==
             /\ version.ok
             /\ version.value \in oldest..FORMAT_VERSION
             /\ file.metadata.compression_format \in {"none", "zlib"}
             /\ file.metadata.serialization_format = "json"
             /\ file.metadata.storage_type \in {"session", "task"}
       IN last'.out = IF passes THEN "ok" ELSE "UnsupportedFormat"]_vars

\* A file of the format version after the current one, its other metadata
\* supported, has been refused.
C24_Witness ==
  /\ backend = "sqlite"
  /\ last.op = "open"
  /\ last.out = "UnsupportedFormat"
  /\ file.metadata.present
  /\ file.metadata.format_version = FormatDecimal(FORMAT_VERSION + 1)
  /\ file.metadata.compression_format = "none"
  /\ file.metadata.serialization_format = SERIALIZER_FORMAT_JSON
  /\ file.metadata.storage_type = STORAGE_TYPE_TASK

\* C25: an open of a closed SQLite store on a file without metadata table.
\* Writable: the open succeeds and leaves a metadata table holding the
\* current format version as decimal text, the compression format, the
\* serialization format and the storage type of the store, and the container
\* tables in the layout of the current format (columns of the schema).
\* Read-only, the file existing: the open raises InvalidFormat and the file is
\* as it was.
C25_OpenWithoutMetadataTable ==
  [][(IsCall("open") /\ backend = "sqlite" /\ ~is_open
        /\ ~file.metadata.present) =>
       /\ ~read_only' =>
            /\ last'.out = "ok"
            /\ file'.exists
            /\ file'.metadata.present
            /\ ParseDecimal(file'.metadata.format_version) =
                 [ok |-> TRUE, value |-> FORMAT_VERSION]
            /\ file'.metadata.compression_format =
                 CompressionFormat(storage_type)
            /\ file'.metadata.serialization_format = SERIALIZER_FORMAT_JSON
            /\ file'.metadata.storage_type = storage_type
            /\ file'.has_tables
            /\ file'.layout = "schema"
            /\ file'.tables = file.tables
       /\ (read_only' /\ file.exists) =>
            /\ last'.out = "InvalidFormat"
            /\ file' = file]_vars

\* A task store has been opened for writing and the file holds the metadata
\* of a task store of the current format.
C25_Witness ==
  /\ backend = "sqlite"
  /\ is_open
  /\ ~read_only
  /\ last.op = "open"
  /\ last.out = "ok"
  /\ storage_type = STORAGE_TYPE_TASK
  /\ file.metadata =
       Metadata(FormatDecimal(FORMAT_VERSION), "none", SERIALIZER_FORMAT_JSON,
                STORAGE_TYPE_TASK)
  /\ file.has_tables
  /\ file.layout = "schema"

\* GetAttributeContainerByIndex past the cache: the query on the table and
\* the container made of the row it returns.
SQLite_GetAttributeContainerByIndex_Uncached(container_type, index) ==
  LET row_number == index + 1
      table == file.tables[container_type]
  IN IF connection = "None" THEN Raised("get_by_index", "AttributeError")
     ELSE IF QueryFailsFor(container_type)
       THEN Raised("get_by_index", "BackendError")
     ELSE IF row_number \notin 1..Len(table)
       THEN Returned("get_by_index", None)
     ELSE Returned("get_by_index",
                   ContainerOfRow(container_type, table[row_number],
                                  row_number))

\* C26: on an open SQLite store, whatever adds, updates and lookups came
\* before, get_by_index and get_by_identifier return what a read of the
\* stored row past the cache returns at that moment: the same outcome and a
\* container with the same type, identifier, attribute value and reference.
C26_CacheIsInvisible ==
  (backend = "sqlite" /\ is_open) =>
    \A t \in CONTAINER_TYPES : \A i \in Indexes :
      LET by_index == SQLite_GetAttributeContainerByIndex_Result(t, i)
          by_identifier ==
            SQLite_GetAttributeContainerByIdentifier_Result(
              t, SQLTableIdentifier(t, i + 1))
          direct == SQLite_GetAttributeContainerByIndex_Uncached(t, i)
      IN /\ by_index.out = direct.out
         /\ by_identifier.out = direct.out
         /\ direct.out = "ok" =>
              /\ (by_index.container = None) = (direct.container = None)
              /\ direct.container # None =>
                   /\ SameFields(by_index.container, direct.container)
                   /\ SameFields(by_identifier.container, direct.container)

(***************************************************************************)
(* The generators of SQLiteStorageFile, consumed a container at a time.    *)
(***************************************************************************)
\* What GetAttributeContainers (op "iterate") or GetSortedEvents (op
\* "sorted_events") returns: a generator that has not run yet.
Generator(op, container_type, time_range) ==
  [op |-> op, container_type |-> container_type, time_range |-> time_range,
   started |-> FALSE, done |-> FALSE, out |-> "ok", yielded |-> <<>>]

\* The query of a generator, run on the file as it is: the error it raises
\* or the containers of the rows it selects, in the order of the query.
GeneratorQuery(generator) ==
  IF generator.op = "iterate"
    THEN SQLite_GetAttributeContainers_Result(generator.container_type)
    ELSE SQLite_GetSortedEvents_Result(generator.time_range)

\* A variant of _GetAttributeContainersWithFilter that runs its query on
\* _cursor of the store.
GeneratorCursor_OfTheStore(k) == 0

\* _GetAttributeContainersWithFilter: the cursor the k-th generator runs its
\* query on, a cursor of its own.
GeneratorCursor(k) == k

\* SQLiteStorageFile.GetAttributeContainers and GetSortedEvents: the call
\* returns a generator; nothing is read before its first step.
SQLite_NewGenerator(op, container_type, time_range) ==
  /\ backend = "sqlite"
  /\ Len(generators) < MaxGenerators
  /\ generators' =
       Append(generators, Generator(op, container_type, time_range))
  /\ UNCHANGED <<base_vars, fake_vars, file, connection, read_only,
                 format_version, storage_type, use_schema,
                 attribute_container_cache, cursors, last>>

\* A step of the k-th generator (next() on it): the first step executes the
\* query on the cursor of the generator, every step fetches one row from
\* that cursor and yields its container, or ends the generator when no row
\* is left.  Steps on a connection closed under a running generator are
\* left out.
SQLite_GeneratorNext(k) ==
  /\ backend = "sqlite"
  /\ k \in 1..Len(generators)
  /\ ~generators[k].done
  /\ generators[k].started => connection = "connected"
  /\ LET generator == generators[k]
         cursor == GeneratorCursor(k)
         query == GeneratorQuery(generator)
         rows == IF generator.started THEN cursors[cursor]
                 ELSE query.containers
     IN IF ~generator.started /\ query.out # "ok"
          THEN /\ generators' =
                    [generators EXCEPT ![k].started = TRUE, ![k].done = TRUE,
                                       ![k].out = query.out]
               /\ UNCHANGED cursors
          ELSE IF rows = <<>>
            THEN /\ generators' =
                      [generators EXCEPT ![k].started = TRUE,
                                         ![k].done = TRUE]
                 /\ cursors' = [cursors EXCEPT ![cursor] = <<>>]
          ELSE /\ generators' =
                    [generators EXCEPT ![k].started = TRUE,
                                       ![k].yielded = Append(@, Head(rows))]
               /\ cursors' = [cursors EXCEPT ![cursor] = Tail(rows)]
  /\ UNCHANGED <<base_vars, fake_vars, file, connection, read_only,
                 format_version, storage_type, use_schema,
                 attribute_container_cache, last>>

\* AddAttributeContainer while no generator is alive.
SQLite_AddBeforeIterating(container) ==
  /\ generators = <<>>
  /\ SQLite_AddAttributeContainer(container)

\* A SQLiteStorageFile on a new file.
InitWithGenerators ==
  /\ Init
  /\ backend = "sqlite"
  /\ ~file.exists

\* The store is opened for writing and filled with events, then read:
\* through generators stepped one container at a time, in any interleaving with
\* each other and with the other read calls.
NextWithGenerators ==
  \/ SQLite_Open(FALSE)
  \/ \E c \in {n \in NewContainers("sqlite") :
                 n.CONTAINER_TYPE = CONTAINER_TYPE_EVENT} :
       SQLite_AddBeforeIterating(c)
  \/ \E t \in {CONTAINER_TYPE_EVENT, CONTAINER_TYPE_EVENT_TAG} :
       SQLite_NewGenerator("iterate", t, NoTimeRange)
  \/ \E r \in AnyTimeRange :
       SQLite_NewGenerator("sorted_events", CONTAINER_TYPE_EVENT, r)
  \/ \E k \in 1..MaxGenerators : SQLite_GeneratorNext(k)
  \/ \E t \in CONTAINER_TYPES : \E i \in Indexes :
       SQLite_GetAttributeContainerByIndex(t, i)
  \/ \E t \in CONTAINER_TYPES : \E i \in Identifiers("sqlite", t) :
       SQLite_GetAttributeContainerByIdentifier(t, i)
  \/ SQLite_GetNumberOfAttributeContainers
  \/ SQLite_HasAttributeContainers
  \/ SQLite_GetEventTagByEventIdentifier

SpecWithGenerators == InitWithGenerators /\ [][NextWithGenerators]_vars

\* C27: on an open SQLite store whose rows do not change, a generator
\* returned by iterate or sorted_events whose query ran without error and
\* that has been stepped, with steps of
\* other generators and calls of get_by_index, get_by_identifier, count, has
\* and event_tag_for in between, has yielded the first rows of its own query,
\* in the order of the query, and once it has ended it has yielded every row
\* of the query exactly once.
C27_GeneratorsDoNotDisturbEachOther ==
  (backend = "sqlite" /\ is_open) =>
    \A k \in 1..Len(generators) :
      LET generator == generators[k]
          query == GeneratorQuery(generator)
      IN (generator.started /\ generator.out = "ok") =>
           /\ query.out = "ok"
           /\ Len(generator.yielded) <= Len(query.containers)
           /\ generator.yielded =
                SubSeq(query.containers, 1, Len(generator.yielded))
           /\ generator.done => generator.yielded = query.containers

\* Two generators over two stored events are both half way: the one of
\* iterate has yielded the first row, the one of sorted_events the second
\* row, which has the lower timestamp.
C27_Witness ==
  /\ backend = "sqlite"
  /\ is_open
  /\ Len(generators) = 2
  /\ generators[1].op = "iterate"
  /\ generators[1].container_type = CONTAINER_TYPE_EVENT
  /\ generators[2].op = "sorted_events"
  /\ ~generators[1].done
  /\ ~generators[2].done
  /\ Len(generators[1].yielded) = 1
  /\ Len(generators[2].yielded) = 1
  /\ generators[1].yielded[1].identifier.seq = 1
  /\ generators[2].yielded[1].identifier.seq = 2

\* C28: on a store open for writing, in the states that follow an add or an
\* update that returned without error (up to the next open, close, add or
\* update, whatever reads come in between), the reads reflect the write:
\* get_by_identifier with the identifier of the container returns a
\* container with the type, identifier, attribute value and reference the
\* write left, get_by_index returns it at some index, iterate yields it,
\* count is at least 1 and has is true.
C28_ReadsReflectTheLatestWrite ==
  (is_open /\ ~read_only /\ last.op \in {"add", "update"} /\ last.out = "ok") =>
    LET written == last.container
        t == written.CONTAINER_TYPE
        by_identifier ==
          GetAttributeContainerByIdentifier_Result(t, written.identifier)
        iterated == GetAttributeContainers_Result(t)
        count == GetNumberOfAttributeContainers_Result(t)
        has == HasAttributeContainers_Result(t)
    IN /\ by_identifier.out = "ok"
       /\ by_identifier.container # None
       /\ SameFields(by_identifier.container, written)
       /\ \E i \in Indexes :
            LET by_index == GetAttributeContainerByIndex_Result(t, i)
            IN /\ by_index.out = "ok"
               /\ by_index.container # None
               /\ SameFields(by_index.container, written)
       /\ iterated.out = "ok"
       /\ \E k \in 1..Len(iterated.containers) :
            SameFields(iterated.containers[k], written)
       /\ count.out = "ok"
       /\ count.number >= 1
       /\ has.out = "ok"
       /\ has.number = 1

\* The container a store reads from a row of the file, past any cache: the
\* content of the row under the identifier made of its row number.
StoredContainer(container_type, row_number) ==
  ContainerOfRow(container_type, file.tables[container_type][row_number],
                 row_number)

\* C29: what a SQLite store wrote before a close that returned without error
\* is there when the file is opened again, read-only or writable, by the
\* same or by another store object.  (a) An add that returns without error
\* has written its container to the row whose number is the sequence number
\* of the identifier it gave the container, and an update to the row of the
\* identifier of its container.  (b) The close and every step taken while
\* the store is closed leave the rows in the file as they are, and count(t)
\* just before the close is the number of rows of t.  (c) After an open that
\* returns without error, count(t) is the number of rows of t and
\* get_by_index and get_by_identifier return every row at its position, with
\* the identifier of its row number and the attribute value and reference
\* the row holds.
C29_WritesSurviveCloseAndOpen ==
  [][backend = "sqlite" =>
       /\ \A t \in CONTAINER_TYPES :
            (IsSuccessfulAdd(t) /\ last'.container.identifier.kind = "sql") =>
              /\ last'.container.identifier.seq = Len(file'.tables[t])
              /\ last'.container.attr =
                   StoredContainer(t, Len(file.tables[t]))'.attr
       /\ (IsCall("close") /\ last'.out = "ok") =>
            /\ file' = file
            /\ \A t \in CONTAINER_TYPES :
                 LET count == SQLite_GetNumberOfAttributeContainers_Result(t)
                 IN count.out = "ok" =>
                      count.number = (IF file.has_tables
                                        THEN Len(file.tables[t]) ELSE 0)
       /\ ~is_open => file'.tables = file.tables
       /\ (IsCall("open") /\ ~is_open /\ last'.out = "ok") =>
            \A t \in CONTAINER_TYPES :
              LET count == SQLite_GetNumberOfAttributeContainers_Result(t)'
              IN /\ count.out = "ok"
                 /\ count.number = Len(file.tables[t])
                 /\ \A n \in 1..Len(file.tables[t]) :
                      LET stored == StoredContainer(t, n)
                          by_index ==
                            SQLite_GetAttributeContainerByIndex_Result(
                              t, n - 1)'
                          by_identifier ==
                            SQLite_GetAttributeContainerByIdentifier_Result(
                              t, SQLTableIdentifier(t, n))'
                      IN /\ by_index.out = "ok"
                         /\ by_index.container # None
                         /\ SameFields(by_index.container, stored)
                         /\ by_identifier.out = "ok"
                         /\ by_identifier.container # None
                         /\ SameFields(by_identifier.container, stored)]_vars

(***************************************************************************)
(* A FakeStore, or a SQLiteStorageFile on a file that does not exist yet,  *)
(* opened for writing once and then written and read.                      *)
(***************************************************************************)
InitOfNewStores ==
  /\ Init
  /\ ~file.exists

NextOfNewStores ==
  \/ Fake_Open
  \/ SQLite_Open(FALSE)
  \/ \E c \in NewContainers("fake") : Fake_AddAttributeContainer(c)
  \/ \E c \in NewContainers("sqlite") : SQLite_AddAttributeContainer(c)
  \/ \E c \in ExistingContainers("fake") : Fake_UpdateAttributeContainer(c)
  \/ \E c \in ExistingContainers("sqlite") : SQLite_UpdateAttributeContainer(c)
  \/ \E t \in CONTAINER_TYPES : \E i \in Indexes :
       SQLite_GetAttributeContainerByIndex(t, i)
  \/ \E t \in CONTAINER_TYPES : \E i \in Identifiers("sqlite", t) :
       SQLite_GetAttributeContainerByIdentifier(t, i)
  \/ Fake_GetAttributeContainerByIdentifier
  \/ Fake_GetAttributeContainerByIndex
  \/ Fake_GetAttributeContainers
  \/ Fake_GetEventTagByEventIdentifier
  \/ Fake_GetNumberOfAttributeContainers
  \/ Fake_HasAttributeContainers
  \/ Fake_GetSortedEvents
  \/ SQLite_GetAttributeContainers
  \/ SQLite_GetEventTagByEventIdentifier
  \/ SQLite_GetNumberOfAttributeContainers
  \/ SQLite_HasAttributeContainers
  \/ SQLite_GetSortedEvents

SpecOfNewStores == InitOfNewStores /\ [][NextOfNewStores]_vars

\* The containers of a type a store holds, in the order iterate yields them.
Stored(container_type) == GetAttributeContainers_Result(container_type).containers

\* FakeStore._WriteNewAttributeContainer, read as a rule on the call: the
\* error an add raises on an open store.
InMemory_Add_Out(container) ==
  IF /\ container.CONTAINER_TYPE = CONTAINER_TYPE_EVENT_TAG
     /\ container.ref_identifier = NoIdentifier
    THEN "AttributeError"
    ELSE "ok"

\* FakeStore._WriteExistingAttributeContainer, read as a rule on the
\* containers a store holds, identifiers taken by their sequence number.
InMemory_Update_Out(container) ==
  IF container.identifier.kind # OwnKind THEN "UnsupportedIdentifier"
  ELSE IF \A k \in 1..Len(Stored(container.CONTAINER_TYPE)) :
            Stored(container.CONTAINER_TYPE)[k].identifier.seq #
              container.identifier.seq
    THEN "MissingContainer"
  ELSE "ok"

\* FakeStore.GetEventTagByEventIdentifier, read as a rule on the containers
\* a store holds: the event tag added last among those of the event, None
\* when there is none.
InMemory_GetEventTagByEventIdentifier(sequence_number) ==
  LET tags == Stored(CONTAINER_TYPE_EVENT_TAG)
      of_event == {k \in 1..Len(tags) :
                     tags[k].ref_identifier.seq = sequence_number}
  IN IF of_event = {} THEN None
     ELSE tags[CHOOSE k \in of_event : \A j \in of_event : j <= k]

\* FakeStore.GetSortedEvents, read as a rule on the events a store holds:
\* TRUE when it raises TypeError.
InMemory_GetSortedEvents_Raises(time_range) ==
  \E k \in 1..Len(Stored(CONTAINER_TYPE_EVENT)) :
    Fake_TimeRangeTestRaises(Stored(CONTAINER_TYPE_EVENT)[k], time_range)

\* FakeStore.GetSortedEvents, read as a rule on the events a store holds:
\* the events it yields.
InMemory_GetSortedEvents(time_range) ==
  LET events == Stored(CONTAINER_TYPE_EVENT)
  IN PopEvents({[timestamp |-> events[i].attr, event_index |-> i - 1,
                 event |-> events[i]] :
                  i \in {j \in 1..Len(events) :
                           ~Fake_OutsideTimeRange(events[j], time_range)}})

\* C30: a SQLiteStorageFile on a new file opened for writing answers every
\* call as a FakeStore holding the same containers does, identifiers being
\* compared by their sequence number.  On a store open for writing: an add
\* and an update end with the outcome (success or kind of error) the
\* FakeStore gives them, and a successful add raises count by one;
\* event_tag_for returns the event tag the FakeStore returns;
\* sorted_events raises when the FakeStore raises and yields the events the
\* FakeStore yields, in the same order; get_by_identifier returns the stored
\* container with the sequence number asked for, None when there is none.
C30_BackendsAreInterchangeable ==
  [][(is_open /\ ~read_only) =>
       /\ IsCall("add") => last'.out = InMemory_Add_Out(last'.container)
       /\ \A t \in CONTAINER_TYPES :
            IsSuccessfulAdd(t) => Len(Stored(t)') = Len(Stored(t)) + 1
       /\ IsCall("update") => last'.out = InMemory_Update_Out(last'.container)
       /\ \A n \in 1..MaxSequenceNumber :
            LET tag == GetEventTagByEventIdentifier_Result(
                         OwnIdentifier(OwnKind, CONTAINER_TYPE_EVENT, n))
                in_memory == InMemory_GetEventTagByEventIdentifier(n)
            IN /\ tag.out = "ok"
               /\ (tag.container = None) = (in_memory = None)
               /\ tag.container # None =>
                    /\ tag.container.identifier.seq = in_memory.identifier.seq
                    /\ SameContent(tag.container, in_memory)
       /\ \A r \in AnyTimeRange \cup OpenTimeRanges :
            LET sorted == GetSortedEvents_Result(r)
                in_memory == InMemory_GetSortedEvents(r)
            IN IF InMemory_GetSortedEvents_Raises(r) THEN sorted.out # "ok"
               ELSE /\ sorted.out = "ok"
                    /\ Len(sorted.containers) = Len(in_memory)
                    /\ \A k \in 1..Len(in_memory) :
                         /\ sorted.containers[k].identifier.seq =
                              in_memory[k].identifier.seq
                         /\ sorted.containers[k].attr = in_memory[k].attr
       /\ \A t \in CONTAINER_TYPES : \A n \in 1..MaxSequenceNumber :
            LET by_identifier ==
                  GetAttributeContainerByIdentifier_Result(
                    t, OwnIdentifier(OwnKind, t, n))
                with_number == {k \in 1..Len(Stored(t)) :
                                  Stored(t)[k].identifier.seq = n}
            IN /\ by_identifier.out = "ok"
               /\ (by_identifier.container = None) = (with_number = {})
               /\ \A k \in with_number :
                    /\ by_identifier.container.identifier.seq = n
                    /\ SameContent(by_identifier.container, Stored(t)[k])
    ]_vars

(***************************************************************************)
(* The counters after an open, the cache, the references written out and   *)
(* the calls that fail.                                                    *)
(***************************************************************************)
\* C31: an open of a SQLite store that succeeds leaves, for every container
\* type with a table in the file, the sequence counter at the number of
\* rows of that table; an add of type t that directly follows the open and
\* returns without error gives its container the sequence number of the
\* row it inserted.
C31_CountersStartAtTheRowCounts ==
  [][/\ (IsCall("open") /\ backend = "sqlite" /\ last'.out = "ok") =>
          \A t \in CONTAINER_TYPES :
            file'.has_tables =>
              sequence_numbers'[t] = Len(file'.tables[t])
     /\ \A t \in CONTAINER_TYPES :
          ( /\ backend = "sqlite"
            /\ last.op = "open" /\ last.out = "ok"
            /\ IsSuccessfulAdd(t) )
          => last'.container.identifier.seq = Len(file'.tables[t])]_vars

(***************************************************************************)
(* A store constructed on files that earlier runs left behind with rows in *)
(* their tables, more of them than the cache has room for, and opened on   *)
(* one path after the other.  The producer adds event sources, the only    *)
(* containers an add puts in the cache.                                    *)
(***************************************************************************)
\* Largest number of rows in a file an earlier run left behind.
MaxStoredRows == 3

\* The rows an earlier run wrote to the table of a container type: event
\* sources of alternating data types, events of alternating timestamps
\* that refer to event data 1, event tags that refer to the event of the
\* same row number.
StoredRows(container_type, number_of_rows) ==
  [n \in 1..number_of_rows |->
     IF container_type = CONTAINER_TYPE_EVENT
       THEN [attr |-> n % (MaxTimestamp + 1), row_identifier |-> 1]
     ELSE IF container_type = CONTAINER_TYPE_EVENT_TAG
       THEN [attr |-> 0, row_identifier |-> n]
     ELSE [attr |-> n % 2, row_identifier |-> 0]]

\* The tables of such a file: no rows; event sources only, as many as a
\* file holds; an event source, an event and the tag of the event.
StoredTables ==
  {NoTables,
   [NoTables EXCEPT ![CONTAINER_TYPE_EVENT_SOURCE] =
                       StoredRows(CONTAINER_TYPE_EVENT_SOURCE, MaxStoredRows)],
   [NoTables EXCEPT ![CONTAINER_TYPE_EVENT_SOURCE] =
                       StoredRows(CONTAINER_TYPE_EVENT_SOURCE,
                                  MaxStoredRows - 2),
                    ![CONTAINER_TYPE_EVENT] =
                       StoredRows(CONTAINER_TYPE_EVENT, 1),
                    ![CONTAINER_TYPE_EVENT_TAG] =
                       StoredRows(CONTAINER_TYPE_EVENT_TAG, 1)]}

\* The files: written by a session of this release, or by a session of an
\* earlier release with a pre-schema format.
FilesWithRows ==
  {File(TRUE,
        Metadata(FormatDecimal(version), "zlib", SERIALIZER_FORMAT_JSON,
                 STORAGE_TYPE_SESSION),
        TRUE,
        IF version >= WITH_SCHEMA_FORMAT_VERSION THEN "schema" ELSE "legacy",
        tables) :
     version \in {20200101, FORMAT_VERSION}, tables \in StoredTables}

\* SQLiteStorageFile.__init__, the caller holding the path of one of the
\* files.
InitWithStoredRows ==
  /\ backend = "sqlite"
  /\ is_open = FALSE
  /\ sequence_numbers = [t \in CONTAINER_TYPES |-> 0]
  /\ attribute_containers = [t \in CONTAINER_TYPES |-> <<>>]
  /\ event_tag_per_event_identifier = {}
  /\ producer = NoProducer
  /\ file \in FilesWithRows
  /\ connection = "None"
  /\ read_only = TRUE
  /\ format_version = FORMAT_VERSION
  /\ storage_type = STORAGE_TYPE_SESSION
  /\ use_schema = TRUE
  /\ attribute_container_cache = <<>>
  /\ cursors = [c \in CursorIds |-> <<>>]
  /\ generators = <<>>
  /\ last = Called(Raised("init", "ok"))

\* The path argument of Open: the caller of a closed store turns to the
\* path of another file, which the next Open is called with.
SQLite_OpenPath(stored_file) ==
  /\ backend = "sqlite"
  /\ ~is_open
  /\ file' = stored_file
  /\ last' = Called(Raised("path", "ok"))
  /\ UNCHANGED <<base_vars, fake_vars, connection, read_only, format_version,
                 storage_type, use_schema, attribute_container_cache,
                 generator_vars>>

\* The indexes a caller passes to get_by_index on these files.
StoredIndexes == 0..MaxStoredRows

NextWithStoredRows ==
  \/ \E read_only_argument \in BOOLEAN : SQLite_Open(read_only_argument)
  \/ SQLite_Close
  \/ \E stored_file \in FilesWithRows : SQLite_OpenPath(stored_file)
  \/ \E c \in NewContainers("sqlite") :
       /\ c.CONTAINER_TYPE = CONTAINER_TYPE_EVENT_SOURCE
       /\ SQLite_AddAttributeContainer(c)
  \/ \E t \in CONTAINER_SCHEMAS : \E i \in StoredIndexes :
       SQLite_GetAttributeContainerByIndex(t, i)

SpecWithStoredRows == InitWithStoredRows /\ [][NextWithStoredRows]_vars

\* C32: in every state of a SQLite store the cache holds at most
\* MAXIMUM_CACHED_CONTAINERS entries, and no two entries under one key.
C32_CacheStaysWithinItsCapacity ==
  backend = "sqlite" =>
    /\ Len(attribute_container_cache) <= MAXIMUM_CACHED_CONTAINERS
    /\ \A i, j \in 1..Len(attribute_container_cache) :
         attribute_container_cache[i].key = attribute_container_cache[j].key
           => i = j

\* C32 witness: the cache is full on an open store whose file holds more
\* rows of a cached type than the cache has room for, the container of the
\* last of these rows being the one cached most recently.
C32_Witness ==
  /\ backend = "sqlite" /\ is_open
  /\ Len(attribute_container_cache) = MAXIMUM_CACHED_CONTAINERS
  /\ Len(file.tables[CONTAINER_TYPE_EVENT_SOURCE]) > MAXIMUM_CACHED_CONTAINERS
  /\ attribute_container_cache[1].key =
       CacheKey(CONTAINER_TYPE_EVENT_SOURCE,
                Len(file.tables[CONTAINER_TYPE_EVENT_SOURCE]) - 1)
  /\ \E n \in 1..Len(file.tables[CONTAINER_TYPE_EVENT_SOURCE]) :
       CachePosition(attribute_container_cache,
                     CacheKey(CONTAINER_TYPE_EVENT_SOURCE, n - 1)) = 0

\* C33: the cache is kept in the order of last use, the most recently used
\* entry first.  On an open SQLite store, for every call of get_by_index: a
\* hit moves the entry found to the front and leaves the others in their
\* order; a miss that reads a row puts the new entry at the front, before
\* the entries the cache held, without the last of them when the cache was
\* full and with all of them when it was not.  An add that caches its
\* container does the same, the entry it replaces under its own key aside.
C33_CacheIsLeastRecentlyUsed ==
  [][/\ (backend = "sqlite" /\ is_open) =>
          \A t \in CONTAINER_SCHEMAS : \A i \in StoredIndexes :
            LET cache == attribute_container_cache
                after == SQLite_GetAttributeContainerByIndex_Cache(t, i)
                result == SQLite_GetAttributeContainerByIndex_Result(t, i)
                p == CachePosition(cache, CacheKey(t, i))
                kept == IF Len(cache) >= MAXIMUM_CACHED_CONTAINERS
                          THEN SubSeq(cache, 1, Len(cache) - 1) ELSE cache
            IN /\ p # 0 =>
                    /\ result = Returned("get_by_index", cache[p].container)
                    /\ after = <<cache[p]>> \o Remove(cache, p)
               /\ (p = 0 /\ after # cache) =>
                    /\ after[1] =
                         [key |-> CacheKey(t, i),
                          container |-> result.container]
                    /\ Tail(after) = kept
               /\ (p = 0 /\ after = cache) =>
                    \/ result.out # "ok"
                    \/ result.container = None
                    \/ /\ t = CONTAINER_TYPE_EVENT_TAG
                       /\ format_version < WITH_SCHEMA_FORMAT_VERSION
     /\ ( /\ backend = "sqlite"
          /\ IsSuccessfulAdd(CONTAINER_TYPE_EVENT_SOURCE) ) =>
          LET cache == attribute_container_cache
              lookup_key == CacheKey(CONTAINER_TYPE_EVENT_SOURCE,
                                     last'.container.identifier.seq - 1)
              kept == IF Len(cache) >= MAXIMUM_CACHED_CONTAINERS
                        THEN SubSeq(cache, 1, Len(cache) - 1) ELSE cache
              IsOther(entry) == entry.key # lookup_key
          IN /\ attribute_container_cache'[1] =
                  [key |-> lookup_key, container |-> last'.container]
             /\ Tail(attribute_container_cache') = SelectSeq(kept, IsOther)]_vars

\* C33 witness: on an open store whose file holds three event sources the
\* cache is full, the container of the third row is the most recently used
\* entry and the container of the first row the other one, the second row
\* having no entry: a hit on the first row would reorder the cache, a miss
\* on the second would evict.
C33_Witness ==
  /\ backend = "sqlite" /\ is_open
  /\ Len(file.tables[CONTAINER_TYPE_EVENT_SOURCE]) = 3
  /\ Len(attribute_container_cache) = MAXIMUM_CACHED_CONTAINERS
  /\ attribute_container_cache[1].key = CacheKey(CONTAINER_TYPE_EVENT_SOURCE, 2)
  /\ attribute_container_cache[Len(attribute_container_cache)].key =
       CacheKey(CONTAINER_TYPE_EVENT_SOURCE, 0)
  /\ GetCachedAttributeContainer(CONTAINER_TYPE_EVENT_SOURCE, 1) = None

\* C34: while a SQLite store is open on a file whose format version is
\* below WITH_SCHEMA_FORMAT_VERSION (the open has read that version), the
\* cache holds no event tag, whatever the store object did before the open.
C34_NoEventTagCachedOnPreSchemaFile ==
  ( /\ backend = "sqlite" /\ is_open
    /\ file.metadata.present
    /\ ParseDecimal(file.metadata.format_version).ok
    /\ ParseDecimal(file.metadata.format_version).value <
         WITH_SCHEMA_FORMAT_VERSION
    /\ format_version = ParseDecimal(file.metadata.format_version).value )
  => \A i \in 1..Len(attribute_container_cache) :
       attribute_container_cache[i].container.CONTAINER_TYPE #
         CONTAINER_TYPE_EVENT_TAG

\* C35: an add or update of a SQLite store that returns without error for
\* a container of a type with a declared reference writes a row whose
\* serialized reference is the sequence number of the identifier the
\* container refers to, and the row holds that number and the schema
\* attribute only: no identifier object is part of it.
C35_ReferenceIsWrittenAsSequenceNumber ==
  [][\A t \in ReferencingTypes :
       /\ (backend = "sqlite" /\ IsSuccessfulAdd(t)) =>
            LET row == file'.tables[t][Len(file'.tables[t])]
            IN /\ Len(file'.tables[t]) = Len(file.tables[t]) + 1
               /\ DOMAIN row = {"attr", "row_identifier"}
               /\ row.row_identifier \in 1..MaxSequenceNumber
               /\ row.row_identifier = last'.container.ref_identifier.seq
               /\ last'.container.ref_identifier.kind = "sql"
       /\ ( /\ backend = "sqlite" /\ IsCall("update") /\ last'.out = "ok"
            /\ last'.container.CONTAINER_TYPE = t
            /\ last'.container.identifier.seq \in 1..Len(file.tables[t]) ) =>
            LET row == file'.tables[t][last'.container.identifier.seq]
            IN /\ DOMAIN row = {"attr", "row_identifier"}
               /\ row.row_identifier \in 1..MaxSequenceNumber
               /\ row.row_identifier = last'.container.ref_identifier.seq
               /\ last'.container.ref_identifier.kind = "sql"]_vars

\* C35 witness: the add of an event tag that refers to event 2 has written
\* the first row of the event_tag table, which holds the number 2.
C35_Witness ==
  /\ backend = "sqlite"
  /\ last.op = "add" /\ last.out = "ok"
  /\ last.container.CONTAINER_TYPE = CONTAINER_TYPE_EVENT_TAG
  /\ last.container.ref_identifier =
       SQLTableIdentifier(CONTAINER_TYPE_EVENT, 2)
  /\ Len(file.tables[CONTAINER_TYPE_EVENT_TAG]) = 1
  /\ file.tables[CONTAINER_TYPE_EVENT_TAG][1].row_identifier = 2

\* C36: an open of a closed SQLite store that raises leaves the store
\* closed: it is not open, it holds no connection, its data operations
\* fail as those of a closed store do, and an open that follows on a file
\* that passes the metadata check is not refused.
C36_FailedOpenLeavesTheStoreClosed ==
  [][/\ ( /\ backend = "sqlite" /\ IsCall("open")
          /\ ~is_open /\ last'.out # "ok" ) =>
          /\ ~is_open'
          /\ connection' = "None"
          /\ SQLite_RaiseIfNotReadable'
          /\ \A t \in CONTAINER_TYPES :
               SQLite_GetNumberOfAttributeContainers_Result(t)'.out # "ok"
     /\ ( /\ backend = "sqlite" /\ IsCall("open")
          /\ last.op = "open" /\ last.out \notin {"ok", "AlreadyOpen"}
          /\ \E read_only_argument \in BOOLEAN :
               /\ SQLite_Open(read_only_argument)
               /\ FileAccepted(read_only_argument) ) =>
          last'.out = "ok"]_vars

\* C37: an add of a SQLite store that passes the writable check and then
\* raises inserts no row, leaves the sequence counters as they were and
\* leaves the caller's container without identifier; the add of the same
\* type that follows it and returns without error gives its container the
\* number of the row it inserted whenever the counter stood at the row
\* count before the two adds.
C37_FailedAddChangesNothing ==
  [][/\ ( /\ backend = "sqlite" /\ IsCall("add")
          /\ last'.out \notin {"ok", "NotWritable"} ) =>
          /\ file' = file
          /\ sequence_numbers' = sequence_numbers
          /\ last'.container.identifier = NoIdentifier
     /\ \A t \in CONTAINER_TYPES :
          ( /\ backend = "sqlite"
            /\ last.op = "add" /\ last.out \notin {"ok", "NotWritable"}
            /\ last.container.CONTAINER_TYPE = t
            /\ last.container.identifier.seq = Len(file.tables[t]) + 1
            /\ IsSuccessfulAdd(t) ) =>
          last'.container.identifier.seq = Len(file'.tables[t])]_vars

\* What a store object that was just constructed shows after an open that
\* succeeded, in terms of the state the open leaves: get_by_index returns
\* what a read of the row returns, the next sequence number of a type is
\* one more than the row count for the types Open counts and 1 for the
\* others, and the layout queried is that of the format version read, or
\* the schema layout when the open wrote the metadata table itself.
LikeANewStore(opened_file) ==
  /\ \A t \in CONTAINER_TYPES : \A i \in Indexes \cup StoredIndexes :
       LET result == SQLite_GetAttributeContainerByIndex_Result(t, i)
           direct == SQLite_GetAttributeContainerByIndex_Uncached(t, i)
       IN /\ result.out = direct.out
          /\ (result.container = None) = (direct.container = None)
          /\ direct.container # None =>
               SameFields(result.container, direct.container)
  /\ \A t \in CONTAINER_TYPES :
       GetAttributeContainerNextSequenceNumber(t) =
         IF t \in REFERENCED_CONTAINER_TYPES THEN Len(file.tables[t]) + 1
         ELSE 1
  /\ QueryLayout =
       IF ~opened_file.metadata.present THEN "schema"
       ELSE IF ParseDecimal(opened_file.metadata.format_version).value >=
                 WITH_SCHEMA_FORMAT_VERSION THEN "schema"
       ELSE "legacy"

\* C38: a SQLite store object that is opened after it was closed, on the
\* same file or on another, shows after the open what a store object that
\* was just constructed shows after the same open: nothing of the cache,
\* the counters and the layout choice of its earlier sessions.
C38_ReopenedStoreIsLikeANewOne ==
  [][( /\ backend = "sqlite" /\ IsCall("open")
       /\ ~is_open /\ last'.out = "ok" ) => LikeANewStore(file)']_vars

\* C39: on an open FakeStore the index of event tags by event identifier
\* agrees with the stored containers: for every stored event tag that
\* refers to an event and is the only stored tag of that event,
\* event_tag_for called with the identifier of the event returns the very
\* container get_by_identifier returns for the identifier of the tag.
C39_EventTagIndexAgreesWithTheContainers ==
  (backend = "fake" /\ is_open) =>
    LET entries == attribute_containers[CONTAINER_TYPE_EVENT_TAG]
    IN \A i \in 1..Len(entries) :
         LET event_tag == entries[i].container
             by_event == Fake_GetEventTagByEventIdentifier_Result(
                           event_tag.ref_identifier)
             by_identifier ==
               Fake_GetAttributeContainerByIdentifier_Result(
                 CONTAINER_TYPE_EVENT_TAG, event_tag.identifier)
         IN ( /\ event_tag.ref_identifier.kind = "fake"
              /\ \A j \in 1..Len(entries) :
                   entries[j].container.ref_identifier =
                     event_tag.ref_identifier => j = i )
            => /\ by_event.out = "ok"
               /\ by_identifier.out = "ok"
               /\ by_identifier.container = event_tag
               /\ by_event.container = by_identifier.container

\* C40: on a FakeStore, a change the producer makes to the object it
\* handed to an update that returned changes nothing of what the store
\* returns: get_by_identifier, get_by_index and iterate return after the
\* change what they returned before it, for every argument.
C40_UpdateStoresACopy ==
  [][(backend = "fake" /\ IsMutation /\ producer.op = "update") =>
       \A t \in CONTAINER_TYPES :
         /\ \A i \in Identifiers("fake", t) :
              Fake_GetAttributeContainerByIdentifier_Result(t, i)' =
                Fake_GetAttributeContainerByIdentifier_Result(t, i)
         /\ \A i \in Indexes :
              Fake_GetAttributeContainerByIndex_Result(t, i)' =
                Fake_GetAttributeContainerByIndex_Result(t, i)
         /\ Fake_GetAttributeContainers_Result(t)' =
              Fake_GetAttributeContainers_Result(t)]_vars

=============================================================================
